---- MODULE Spec2Model ----
(***************************************************************************)
(* Verification model of ypsu/efftesting, package efft and efft/internal.  *)
(*                                                                         *)
(* Among the specifications that share this module:                        *)
(*   SpecLit    the literal writer and reader: makelit, the Go string      *)
(*              literal syntax, Detab                                      *)
(*   SpecApply  the source rewriter: Replacer.Apply and Replacer.ApplyAll  *)
(*              over a small file system                                   *)
(*   Spec       the lifecycle: Init, Effect/FatalEffect, Equals, the       *)
(*              cleanups, the replacement pipe and the rewriter child      *)
(*                                                                         *)
(* A text is a sequence of characters; a character is a one-element name.  *)
(***************************************************************************)
EXTENDS Integers, Sequences, FiniteSets, TLC

\* ------------------------------------------------------------------------
\* Characters and texts
\* ------------------------------------------------------------------------

NL == "NL"
TAB == "TAB"
BT == "BT"
DQ == "DQ"
BS == "BS"
CR == "CR"

\* Bound: longest replacement text of SpecLit.
MaxLen == 3

\* Bound: largest call-site column handed to makelit.
MaxIndent == 2

\* The characters replacement texts are drawn from in SpecLit.
Alphabet == {"a", "n", NL, TAB, BT, DQ, BS, CR}

RECURSIVE TextsUpTo(_)
TextsUpTo(n) ==
  IF n = 0 THEN {<<>>}
  ELSE LET shorter == TextsUpTo(n - 1)
       IN shorter \cup {Append(s, c) : s \in {x \in shorter : Len(x) = n - 1}, c \in Alphabet}

Contains(s, c) == \E i \in 1..Len(s) : s[i] = c

HasPrefix(s, p) == Len(s) >= Len(p) /\ SubSeq(s, 1, Len(p)) = p

Drop(s, n) == SubSeq(s, n + 1, Len(s))

TrimPrefix(s, p) == IF HasPrefix(s, p) THEN Drop(s, Len(p)) ELSE s

RECURSIVE Repeat(_, _)
Repeat(c, n) == IF n <= 0 THEN <<>> ELSE <<c>> \o Repeat(c, n - 1)

\* strings.Split(s, "\n"): the lines of s, always at least one.
RECURSIVE SplitLinesFrom(_, _, _)
SplitLinesFrom(s, i, cur) ==
  IF i > Len(s) THEN <<cur>>
  ELSE IF s[i] = NL THEN <<cur>> \o SplitLinesFrom(s, i + 1, <<>>)
  ELSE SplitLinesFrom(s, i + 1, Append(cur, s[i]))

SplitLines(s) == SplitLinesFrom(s, 1, <<>>)

\* strings.Join(ss, "\n")
RECURSIVE JoinLines(_)
JoinLines(ss) ==
  IF Len(ss) = 0 THEN <<>>
  ELSE IF Len(ss) = 1 THEN ss[1]
  ELSE ss[1] \o <<NL>> \o JoinLines(Tail(ss))

\* strings.ReplaceAll(s, old, new) for a non-empty old: left to right, non-overlapping.
RECURSIVE ReplaceAll(_, _, _)
ReplaceAll(s, old, new) ==
  IF Len(s) = 0 THEN <<>>
  ELSE IF HasPrefix(s, old) THEN new \o ReplaceAll(Drop(s, Len(old)), old, new)
  ELSE <<s[1]>> \o ReplaceAll(Tail(s), old, new)

\* ------------------------------------------------------------------------
\* Go string literals: fmt's %q verb and the evaluation of a literal
\* ------------------------------------------------------------------------

QuoteChar(c) ==
  CASE c = NL -> <<BS, "n">>
    [] c = TAB -> <<BS, "t">>
    [] c = CR -> <<BS, "r">>
    [] c = DQ -> <<BS, DQ>>
    [] c = BS -> <<BS, BS>>
    [] OTHER -> <<c>>

RECURSIVE QuoteBody(_)
QuoteBody(s) == IF Len(s) = 0 THEN <<>> ELSE QuoteChar(s[1]) \o QuoteBody(Tail(s))

\* fmt.Sprintf("%q", s)
Quote(s) == <<DQ>> \o QuoteBody(s) \o <<DQ>>

UnquoteEscape(c) ==
  CASE c = "n" -> NL
    [] c = "t" -> TAB
    [] c = "r" -> CR
    [] OTHER -> c

RECURSIVE UnquoteBody(_)
UnquoteBody(s) ==
  IF Len(s) = 0 THEN <<>>
  ELSE IF s[1] = BS /\ Len(s) >= 2 THEN <<UnquoteEscape(s[2])>> \o UnquoteBody(Drop(s, 2))
  ELSE <<s[1]>> \o UnquoteBody(Tail(s))

RECURSIVE StripCR(_)
StripCR(s) ==
  IF Len(s) = 0 THEN <<>>
  ELSE IF s[1] = CR THEN StripCR(Tail(s))
  ELSE <<s[1]>> \o StripCR(Tail(s))

\* The value of a Go string literal: an interpreted literal decodes its
\* escapes, a raw literal is its text between the back quotes with the
\* carriage returns discarded.  A literal that is no string literal has no
\* usable value and reads as the empty text.
LitValue(src) ==
  IF Len(src) < 2 THEN <<>>
  ELSE IF src[1] = DQ THEN UnquoteBody(SubSeq(src, 2, Len(src) - 1))
  ELSE IF src[1] = BT THEN StripCR(SubSeq(src, 2, Len(src) - 1))
  ELSE <<>>

\* ------------------------------------------------------------------------
\* efft/internal: makelit and Detab
\* ------------------------------------------------------------------------

\* The loop body of makelit indenting every line.
IndentLineAll(ss, indentstr, i) == indentstr \o ss[i]

\* The loop body of makelit: the first line and every non-empty line get
\* the indentation.
IndentLine(ss, indentstr, i) ==
  IF i = 1 \/ ss[i] # <<>> THEN indentstr \o ss[i] ELSE ss[i]

\* The last line, when empty, becomes the indentation: the closing backtick
\* stands behind it.
LastLineFix(ss, indentstr) ==
  [i \in 1..Len(ss) |-> IF i = Len(ss) /\ ss[i] = <<>> THEN indentstr ELSE ss[i]]

\* makelit that looks at line breaks only.
makelitRawWhenMultiline(s, indent) ==
  IF ~Contains(s, NL) THEN Quote(s)
  ELSE LET indentstr == Repeat(TAB, indent)
           ss == SplitLines(s)
           ind == [i \in 1..Len(ss) |-> IndentLine(ss, indentstr, i)]
       IN <<BT, NL>> \o JoinLines(LastLineFix(ind, indentstr)) \o <<BT>>

\* makelit(s, indent): the source text of the literal written for s.
makelit(s, indent) ==
  IF ~Contains(s, NL) \/ Contains(s, BT) THEN Quote(s)
  ELSE LET indentstr == Repeat(TAB, indent)
           ss == SplitLines(s)
           ind == [i \in 1..Len(ss) |-> IndentLine(ss, indentstr, i)]
       IN <<BT, NL>> \o JoinLines(LastLineFix(ind, indentstr)) \o <<BT>>

RECURSIVE DetabIndent(_, _)
DetabIndent(s, indent) ==
  IF indent < Len(s) /\ s[indent + 1] = TAB THEN DetabIndent(s, indent + 1) ELSE indent

\* Detab(s)
Detab(s) ==
  IF ~HasPrefix(s, <<NL>>) THEN s
  ELSE LET indent == DetabIndent(s, 1)
       IN TrimPrefix(ReplaceAll(s, SubSeq(s, 1, indent), <<NL>>), <<NL>>)

\* ------------------------------------------------------------------------
\* efft/internal: the source files and Replacer.Apply, Replacer.ApplyAll
\* ------------------------------------------------------------------------

\* A source file is the sequence of the statements of its test function.
\* A statement is
\*   fn   the selector name of the call it starts with: "Effect",
\*        "FatalEffect", or "Log" for any other call
\*   eq   whether .Equals(...) follows the call
\*   lit  the source text of the arguments of Equals, <<>> when there is none
\*   fmt  "canon": laid out as gofmt lays it out, no trailing comment
\*        "loose": parses, but gofmt would lay it out differently
\*        "cmt":   laid out as gofmt does, followed by a trailing comment
\*   ctx  where the statement stands
\*        "body": in the body of the test function
\*        "go":   alone in the function literal of  go func() { ... }()
\*        "sub":  alone in the function literal of the expression statement
\*                t.Run("x", func(t *testing.T) { ... })
\*        "call": alone in the function literal of the expression statement
\*                func() { ... }()
\* A statement with a ctx other than "body" stands for the three lines of
\* the enclosing statement: its opening line, the statement, its closing line.

\* The file names, in the order slices.Sorted gives them.
FileOrder == <<"A", "B">>

Files == {FileOrder[i] : i \in 1..Len(FileOrder)}

\* Bound: the number of statements of file A.
MaxStmts == 2

\* Bound: the number of entries of a batch.
MaxBatch == 2

\* The replacement texts of SpecApply and Spec.
NewTexts == {<<"b">>, <<"b", NL, "c">>}

\* The literal the files hold before any rewrite.
OldLit == Quote(<<"a">>)

StmtChoices ==
  {s \in [fn : {"Effect", "FatalEffect", "Log"}, eq : BOOLEAN, lit : {<<>>, OldLit},
          fmt : {"canon", "loose", "cmt"}, ctx : {"body"}] :
     /\ s.eq <=> s.lit # <<>>
     /\ s.fn = "Log" => ~s.eq /\ s.fmt # "loose"
     /\ s.fn = "FatalEffect" => s.eq /\ s.fmt = "canon"
     /\ s.fmt = "loose" => s.eq}

\* The statements of file B.
StmtChoicesB == {s \in StmtChoices : s.fmt = "canon" /\ s.fn # "FatalEffect" /\ (s.fn = "Effect" => s.eq)}

RECURSIVE SeqsUpTo(_, _)
SeqsUpTo(S, n) ==
  IF n = 0 THEN {<<>>}
  ELSE LET shorter == SeqsUpTo(S, n - 1)
       IN shorter \cup {Append(q, x) : q \in {y \in shorter : Len(y) = n - 1}, x \in S}

\* A file the parser rejects; its bytes are opaque.
BrokenFile == [parses |-> FALSE, stmts |-> <<>>]

GoFile(q) == [parses |-> TRUE, stmts |-> q]

RECURSIVE CountNL(_)
CountNL(s) == IF Len(s) = 0 THEN 0 ELSE (IF s[1] = NL THEN 1 ELSE 0) + CountNL(Tail(s))

\* Whether the statement stands in a function literal.
Nested(s) == s.ctx # "body"

\* The number of lines a statement spans: a raw literal spans its line breaks,
\* an enclosing statement adds its opening and its closing line.
Height(s) == 1 + CountNL(s.lit) + (IF Nested(s) THEN 2 ELSE 0)

\* The line the i-th statement of the function body starts at.
RECURSIVE FirstLine(_, _)
FirstLine(stmts, i) == IF i = 1 THEN 1 ELSE FirstLine(stmts, i - 1) + Height(stmts[i - 1])

\* fset.Position(callexpr.Pos()).Line of the i-th statement.
StartLine(stmts, i) == FirstLine(stmts, i) + (IF Nested(stmts[i]) THEN 1 ELSE 0)

\* pos.Column of a statement of the function body (one tab of indentation).
StmtColumn == 2

\* pos.Column of the call: a function literal indents by one more tab.
Column(s) == StmtColumn + (IF Nested(s) THEN 1 ELSE 0)

\* Whether ast.Inspect reaches the expression statement: the callback returns
\* true at every node that is not an expression statement, and false at an
\* expression statement, whose parts are then not walked.
Reached(s) == s.ctx \in {"body", "go"}

Location(fname, line) == <<fname, line>>

Restrict(f, S) == [x \in S |-> f[x]]

NoError == [kind |-> "nil", file |-> "", lines |-> <<>>]

\* The traversal's test at one expression statement.
IsHit(stmts, repl, fname, i) ==
  /\ Reached(stmts[i])
  /\ Location(fname, StartLine(stmts, i)) \in DOMAIN repl
  /\ stmts[i].fn \in {"Effect", "FatalEffect"}

\* A rewrite that puts the literal behind the arguments Equals had.
RewriteStmtKeepsArgs(s, text) ==
  [s EXCEPT !.eq = TRUE,
            !.lit = IF @ = <<>> THEN makelit(text, Column(s))
                    ELSE @ \o <<",", " ">> \o makelit(text, Column(s))]

\* A rewrite that indents by the column of the call plus the lines the old
\* arguments span.
RewriteStmtIndentsByHeight(s, text) ==
  [s EXCEPT !.eq = TRUE, !.lit = makelit(text, Column(s) + CountNL(s.lit))]

\* exprstmt.X = marker call, .Equals, one argument makelit(repl, pos.Column)
RewriteStmt(s, text) == [s EXCEPT !.eq = TRUE, !.lit = makelit(text, Column(s))]

\* ast.Inspect over the file: the rewritten statements and the entries left.
Traverse(stmts, repl, fname) ==
  LET hits == {i \in 1..Len(stmts) : IsHit(stmts, repl, fname, i)}
  IN [stmts |-> [i \in 1..Len(stmts) |->
                   IF i \in hits
                   THEN RewriteStmt(stmts[i], repl[Location(fname, StartLine(stmts, i))])
                   ELSE stmts[i]],
      repl |-> Restrict(repl, DOMAIN repl \ {Location(fname, StartLine(stmts, i)) : i \in hits})]

RECURSIVE LinesOf(_)
LinesOf(locs) ==
  IF locs = {} THEN <<>>
  ELSE LET l == CHOOSE x \in locs : TRUE IN <<l[2]>> \o LinesOf(locs \ {l})

\* The lines of the entries left in r.Replacements, after slices.Sort.
FailedLines(repl) == SortSeq(LinesOf(DOMAIN repl), LAMBDA a, b : a < b)

\* format.Node after a parse without parser.ParseComments: comments are lost.
FormatNodeNoComments(stmts) ==
  [i \in 1..Len(stmts) |-> [stmts[i] EXCEPT !.fmt = "canon"]]

\* format.Node: the whole file is printed in gofmt's layout.
FormatNode(stmts) ==
  [i \in 1..Len(stmts) |-> [stmts[i] EXCEPT !.fmt = IF @ = "loose" THEN "canon" ELSE @]]

\* Apply with the write moved before the test for entries left over.
ApplyWritesFirst(disk, repl, fname, wr) ==
  IF DOMAIN repl = {} THEN [disk |-> disk, repl |-> repl, err |-> NoError]
  ELSE IF ~disk[fname].parses
  THEN [disk |-> disk, repl |-> repl,
        err |-> [kind |-> "efft.ParseSource", file |-> fname, lines |-> <<>>]]
  ELSE LET tr == Traverse(disk[fname].stmts, repl, fname)
           written == [disk EXCEPT ![fname] = GoFile(FormatNode(tr.stmts))]
       IN IF wr # "ok"
          THEN [disk |-> disk, repl |-> tr.repl,
                err |-> [kind |-> "efft.WriteBack", file |-> fname, lines |-> <<>>]]
          ELSE IF DOMAIN tr.repl # {}
          THEN [disk |-> written, repl |-> tr.repl,
                err |-> [kind |-> "efft.ReplacementsFailed", file |-> fname,
                         lines |-> FailedLines(tr.repl)]]
          ELSE [disk |-> written, repl |-> tr.repl, err |-> NoError]

\* Replacer.Apply(fname) on the files disk with r.Replacements = repl; wr is
\* the outcome of os.WriteFile.  The result is the files, the entries left in
\* r.Replacements and the error returned.
Apply(disk, repl, fname, wr) ==
  IF DOMAIN repl = {} THEN [disk |-> disk, repl |-> repl, err |-> NoError]
  ELSE IF ~disk[fname].parses
  THEN [disk |-> disk, repl |-> repl,
        err |-> [kind |-> "efft.ParseSource", file |-> fname, lines |-> <<>>]]
  ELSE LET tr == Traverse(disk[fname].stmts, repl, fname)
       IN IF DOMAIN tr.repl # {}
          THEN [disk |-> disk, repl |-> tr.repl,
                err |-> [kind |-> "efft.ReplacementsFailed", file |-> fname,
                         lines |-> FailedLines(tr.repl)]]
          ELSE IF wr # "ok"
          THEN [disk |-> disk, repl |-> tr.repl,
                err |-> [kind |-> "efft.WriteBack", file |-> fname, lines |-> <<>>]]
          ELSE [disk |-> [disk EXCEPT ![fname] = GoFile(FormatNode(tr.stmts))],
                repl |-> tr.repl, err |-> NoError]

\* The width of the code a trailing comment follows: the last line of the
\* statement, which ends with its literal.
CodeWidth(s) == LET ls == SplitLines(s.lit) IN Len(ls[Len(ls)])

\* The statements whose trailing comments gofmt aligns with that of the j-th:
\* the run of adjacent statements with a trailing comment around it.
CommentBlock(stmts, j) ==
  {k \in 1..Len(stmts) :
     \A m \in 1..Len(stmts) : ((k <= m /\ m <= j) \/ (j <= m /\ m <= k)) => stmts[m].fmt = "cmt"}

Max(S) == CHOOSE x \in S : \A y \in S : y <= x

\* The column gofmt puts the trailing comment of the j-th statement at.
CommentColumn(stmts, j) ==
  IF stmts[j].fmt # "cmt" THEN 0
  ELSE 1 + Max({CodeWidth(stmts[k]) : k \in CommentBlock(stmts, j)})

\* The bytes of the lines of the j-th statement of a file.
LineBytes(stmts, j) == [stmt |-> stmts[j], ccol |-> CommentColumn(stmts, j)]

\* The files named by the entries, sorted.
FilesOf(repl) == SelectSeq(FileOrder, LAMBDA f : \E l \in DOMAIN repl : l[1] = f)

\* The loop of Replacer.ApplyAll over the files fs; wr gives the outcome of
\* os.WriteFile for each file.
RECURSIVE ApplyLoop(_, _, _, _)
ApplyLoop(disk, repl, fs, wr) ==
  IF Len(fs) = 0 THEN [disk |-> disk, repl |-> repl, err |-> NoError]
  ELSE LET r == Apply(disk, repl, fs[1], wr[fs[1]])
       IN IF r.err.kind # "nil"
          THEN [disk |-> r.disk, repl |-> r.repl,
                err |-> [kind |-> "efft.UpdateFile", file |-> fs[1], lines |-> r.err.lines,
                         cause |-> r.err]]
          ELSE ApplyLoop(r.disk, r.repl, Tail(fs), wr)

\* Replacer.ApplyAll()
ApplyAll(disk, repl, wr) == ApplyLoop(disk, repl, FilesOf(repl), wr)

\* ------------------------------------------------------------------------
\* efft: the pending-replacement store, the replacement stream, the child
\* ------------------------------------------------------------------------

\* Bound: the number of tests of the test binary.
NTests == 2

Tests == 1..NTests

\* Bound: the number of Effect/FatalEffect calls of one test.
MaxCalls == 2

\* The values the tested code computes (after Stringify).
Gots == {<<>>, <<"b">>}

\* Location{}: what Replace returns for a location already recorded.
ZeroLoc == Location("", 0)

NoResult ==
  [got |-> <<>>, loc |-> ZeroLoc, fatal |-> FALSE, lit |-> <<>>, site |-> ZeroLoc, live |-> FALSE]

EmptyMap == <<>>

\* Replace that stores the latest value.
ReplaceOverwrites(Replacements, Incomplete, loc, newstr) ==
  [Replacements |-> [l \in DOMAIN Replacements \cup {loc} |->
                       IF l = loc THEN newstr ELSE Replacements[l]],
   Incomplete |-> Incomplete \cup {loc},
   loc |-> loc]

\* Replacer.Replace(newstr) called for the location loc: the two maps after
\* the call and the location returned.
Replace(Replacements, Incomplete, loc, newstr) ==
  IF loc \in DOMAIN Replacements
  THEN [Replacements |-> Replacements, Incomplete |-> Incomplete, loc |-> ZeroLoc]
  ELSE [Replacements |-> [l \in DOMAIN Replacements \cup {loc} |->
                            IF l = loc THEN newstr ELSE Replacements[l]],
        Incomplete |-> Incomplete \cup {loc},
        loc |-> loc]

\* A delete that leaves the map as it is.
DeleteKeeps(m, loc) == m

\* delete(m, loc)
Delete(m, loc) == Restrict(m, DOMAIN m \ {loc})

\* Init keeping the maps of the run before.
InitStoreKept(replacements, incomplete) ==
  [Replacements |-> replacements, Incomplete |-> incomplete]

\* Init: both maps of defaultReplacer are made anew.
InitStore(replacements, incomplete) == [Replacements |-> EmptyMap, Incomplete |-> {}]

\* Init's test of the active test handle, never refusing.
InitRefusedNever(active) == FALSE

\* Init: t != nil, the call is refused with t.Fatal.
InitRefused(active) == active # 0

\* The statement of the compiled test source at a location.
StmtAt(src, loc) ==
  LET stmts == src[loc[1]].stmts
  IN stmts[CHOOSE i \in 1..Len(stmts) : StartLine(stmts, i) = loc[2]]

\* The locations of the Effect and FatalEffect calls of the test source.
CallSites(src) ==
  {l \in Files \X (1..(MaxStmts + 1)) :
     /\ src[l[1]].parses
     /\ \E i \in 1..Len(src[l[1]].stmts) :
          /\ StartLine(src[l[1]].stmts, i) = l[2]
          /\ src[l[1]].stmts[i].fn \in {"Effect", "FatalEffect"}}

\* fmt.Fprintf(rewriterPipe, "%q %d %q\n", loc.Fname, loc.Line, newstr)
WireRecord(loc, newstr) == <<loc[1], loc[2], Quote(newstr)>>

\* A record cut short: the writer died inside the Fprintf.
Truncated(rec) == <<rec[1], rec[2], SubSeq(rec[3], 1, Len(rec[3]) - 1)>>

\* The position of the quote that closes the quoted string starting at s[1],
\* 0 when the string is not closed.
RECURSIVE ClosingQuote(_, _)
ClosingQuote(s, i) ==
  IF i > Len(s) THEN 0
  ELSE IF s[i] = BS THEN ClosingQuote(s, i + 2)
  ELSE IF s[i] = DQ THEN i
  ELSE ClosingQuote(s, i + 1)

\* fmt.Scanf("%q %d %q\n", ...) succeeds on the record.
Scans(rec) == Len(rec[3]) >= 2 /\ rec[3][1] = DQ /\ ClosingQuote(rec[3], 2) = Len(rec[3])

\* The orders a range over a map of the given keys may take.
RECURSIVE Orders(_)
Orders(S) ==
  IF S = {} THEN {<<>>}
  ELSE UNION {{<<x>> \o q : q \in Orders(S \ {x})} : x \in S}

\* The cleanup's loop streaming the incomplete locations only.
StreamsIncompleteOnly(replacements, incomplete) ==
  {[i \in 1..Len(q) |-> WireRecord(q[i], replacements[q[i]])] :
     q \in Orders(DOMAIN replacements \cap incomplete)}

\* The cleanup's loop "for loc, newstr := range replacements": the record
\* sequences it may write.
Streams(replacements, incomplete) ==
  {[i \in 1..Len(q) |-> WireRecord(q[i], replacements[q[i]])] : q \in Orders(DOMAIN replacements)}

\* cmd.Env of the spawned child.
SpawnEnv == {"EFFTESTING_REWRITE"}

\* init() of a child that does not look at the marker.
ChildStartIgnoresMarker(env) == "main"

\* init() of a process with environment env: with the marker it reads the
\* replacement stream, without it init returns and the tests run.
ChildStart(env) == IF "EFFTESTING_REWRITE" \in env THEN "reading" ELSE "main"

\* The child sees end of input as soon as the pipe is drained.
EndOfInputWhenDrained(writerGone) == TRUE

\* Scanf returns io.EOF: everything written was read and the write end of
\* the pipe is closed, which only the exit of the parent does.
EndOfInput(writerGone) == writerGone

\* The Scanf loop of the child's init over the stream: the map it builds,
\* and whether every record scanned.
RECURSIVE ReadReplacements(_, _)
ReadReplacements(stream, m) ==
  IF Len(stream) = 0 THEN [ok |-> TRUE, repl |-> m]
  ELSE IF ~Scans(stream[1]) THEN [ok |-> FALSE, repl |-> m]
  ELSE LET rec == stream[1]
           loc == Location(rec[1], rec[2])
       IN ReadReplacements(Tail(stream),
                           [l \in DOMAIN m \cup {loc} |-> IF l = loc THEN LitValue(rec[3]) ELSE m[l]])

\* ------------------------------------------------------------------------
\* State
\* ------------------------------------------------------------------------

VARIABLES
  litPc,      \* SpecLit: "start", "written", "read" ("off" in the other specifications)
  litX,       \* SpecLit: the replacement text
  litIndent,  \* SpecLit: the column of the call site
  litSrc,     \* SpecLit: the literal in the file
  litWant,    \* SpecLit: what Equals compares got against
  apPc,       \* SpecApply: "start", "done" ("off" in the other specifications)
  apOp,       \* SpecApply: the call made, <<"Apply", fname, wr>> or <<"ApplyAll", wr>>
  disk,       \* the source files on disk, by name
  repl,       \* r.Replacements of the rewriter's Replacer
  apErr,      \* the error the call returned
  disk0,      \* history: the files before the call
  repl0,      \* history: r.Replacements before the call
  updatemode,    \* Spec: EFFUP=1
  t,             \* Spec: the active test handle, 0 for nil
  tstate,        \* Spec: where each test is: "new", "body", "cleanup", "reported",
                 \*       "ended", or "aborted" when its Init was refused
  failed,        \* Spec: the tests marked failed
  calls,         \* Spec: the number of Effect/FatalEffect calls each test made
  res,           \* Spec: the result each test holds between Effect and Equals
  Replacements,  \* Spec: defaultReplacer.Replacements of the test process
  Incomplete,    \* Spec: defaultReplacer.Incomplete of the test process
  log,           \* Spec: history: the comparisons finished in the active run
  rewriterPipe,  \* Spec: whether rewriterPipe is set
  pipe,          \* Spec: the records written to the pipe so far
  ppc,           \* Spec: the test process: "running", "exited"
  pexit,         \* Spec: its exit code
  cpc,           \* Spec: the child: "none", "reading", "main", "exited"
  cexit,         \* Spec: the exit code of the child
  mu,            \* SpecConc: the goroutine holding the Replacer's mutex, 0 when free
  gpc,           \* SpecConc: where each goroutine is in Effect, Replace and Equals
  greg,          \* SpecConc: the locals of each goroutine: loc, got, want, the result's loc
  strPc,         \* SpecStr: "start", "done" ("off" in the other specifications)
  strArgs,       \* SpecStr: the arguments of Stringify
  strOut,        \* SpecStr: what Stringify returned
  disk1,         \* SpecRewrite: the files after the first Apply
  err1,          \* SpecRewrite: the error the first Apply returned
  wirePc,        \* SpecStream: "start", "written", "read" ("off" elsewhere)
  wireMap,       \* SpecStream: the parent's Replacements, keyed by <<path, line>>
  wireBytes,     \* SpecStream: the bytes on the child's standard input
  wireFault,     \* SpecStream: "none", "cut" (the writer died inside a record), "garbled"
  wireGot,       \* SpecStream: what the child's read loop returned
  hcur,          \* SpecHelpers: the test the runner executes, 0 between tests
  hphase,        \* SpecHelpers: "idle", "body", "cleanup", "panicked" ("off" elsewhere)
  hdone,         \* SpecHelpers: the number of tests that have ended
  hstack,        \* SpecHelpers: the functions registered with t.Cleanup, in order
  px,            \* SpecHelpers: *p, the variable handed to Override
  pxStart,       \* SpecHelpers: history: *p when the test started
  hovers,        \* SpecHelpers: history: the values Override set in this test
  hlast,         \* SpecHelpers: history: the last call of the package and its outcome
  hops,          \* SpecHelpers: the number of calls the test body has made
  diffPc,        \* SpecDiff: "start", "done" ("off" elsewhere)
  diffL,         \* SpecDiff: lts, the left text handed to Diff
  diffR,         \* SpecDiff: rts, the right text
  diffCtx,       \* SpecDiff: the package variable Context
  diffOut        \* SpecDiff: what dummydiff did: the string returned, or a panic

litVars == <<litPc, litX, litIndent, litSrc, litWant>>

apVars == <<apPc, apOp, disk, repl, apErr, disk0, repl0>>

lifeVars == <<updatemode, t, tstate, failed, calls, res, Replacements, Incomplete, log,
              rewriterPipe, pipe, ppc, pexit, cpc, cexit>>

concVars == <<mu, gpc, greg>>

strVars == <<strPc, strArgs, strOut>>

rwVars == <<disk1, err1>>

wireVars == <<wirePc, wireMap, wireBytes, wireFault, wireGot>>

helpVars == <<hcur, hphase, hdone, hstack, px, pxStart, hovers, hlast, hops>>

diffVars == <<diffPc, diffL, diffR, diffCtx, diffOut>>

auxVars == <<concVars, strVars, rwVars, wireVars, helpVars, diffVars>>

vars == <<litVars, apVars, lifeVars, auxVars>>

ConcOff ==
  /\ mu = 0
  /\ gpc = <<>>
  /\ greg = <<>>

StrOff ==
  /\ strPc = "off"
  /\ strArgs = <<>>
  /\ strOut = <<>>

RwOff ==
  /\ disk1 = <<>>
  /\ err1 = NoError

WireOff ==
  /\ wirePc = "off"
  /\ wireMap = <<>>
  /\ wireBytes = <<>>
  /\ wireFault = "none"
  /\ wireGot = <<>>

HelpOff ==
  /\ hcur = 0
  /\ hphase = "off"
  /\ hdone = 0
  /\ hstack = <<>>
  /\ px = 0
  /\ pxStart = 0
  /\ hovers = <<>>
  /\ hlast = <<>>
  /\ hops = 0

DiffOff ==
  /\ diffPc = "off"
  /\ diffL = <<>>
  /\ diffR = <<>>
  /\ diffCtx = 0
  /\ diffOut = <<>>

AuxOff == ConcOff /\ StrOff /\ RwOff /\ WireOff /\ HelpOff /\ DiffOff

LitOff ==
  /\ litPc = "off"
  /\ litX = <<>>
  /\ litIndent = 0
  /\ litSrc = <<>>
  /\ litWant = <<>>

ApOff ==
  /\ apPc = "off"
  /\ apOp = <<>>
  /\ disk = <<>>
  /\ repl = <<>>
  /\ apErr = NoError
  /\ disk0 = <<>>
  /\ repl0 = <<>>

LifeOff ==
  /\ updatemode = FALSE
  /\ t = 0
  /\ tstate = <<>>
  /\ failed = <<>>
  /\ calls = <<>>
  /\ res = <<>>
  /\ Replacements = EmptyMap
  /\ Incomplete = {}
  /\ log = <<>>
  /\ rewriterPipe = FALSE
  /\ pipe = <<>>
  /\ ppc = "off"
  /\ pexit = 0
  /\ cpc = "none"
  /\ cexit = 0

\* ------------------------------------------------------------------------
\* SpecLit: write a literal for X, then read it the way Equals does
\* ------------------------------------------------------------------------

LitInit ==
  /\ litPc = "start"
  /\ litX \in TextsUpTo(MaxLen)
  /\ litIndent \in 1..MaxIndent
  /\ litSrc = <<>>
  /\ litWant = <<>>
  /\ ApOff
  /\ LifeOff
  /\ AuxOff

\* Replacer.Apply builds the new argument: makelit(repl, pos.Column).
LitWrite ==
  /\ litPc = "start"
  /\ litSrc' = makelit(litX, litIndent)
  /\ litPc' = "written"
  /\ UNCHANGED <<litX, litIndent, litWant, apVars, lifeVars, auxVars>>

\* result.Equals reads the literal: internal.Detab(string(wanted)).
LitRead ==
  /\ litPc = "written"
  /\ litWant' = Detab(LitValue(litSrc))
  /\ litPc' = "read"
  /\ UNCHANGED <<litX, litIndent, litSrc, apVars, lifeVars, auxVars>>

LitNext == LitWrite \/ LitRead

SpecLit == LitInit /\ [][LitNext]_vars

\* ------------------------------------------------------------------------
\* SpecApply: one call of Replacer.Apply or Replacer.ApplyAll
\* ------------------------------------------------------------------------

\* The locations a batch may name: one line past the last statement included.
BatchLocs == {Location("A", l) : l \in 1..(MaxStmts + 1)} \cup {Location("B", l) : l \in 1..2}

Batches ==
  UNION {[D -> NewTexts] : D \in {S \in SUBSET BatchLocs : Cardinality(S) <= MaxBatch}}

WriteOutcomes == {"ok", "denied"}

ApInit ==
  /\ LitOff
  /\ AuxOff
  /\ LifeOff
  /\ apPc = "start"
  /\ apOp = <<>>
  /\ disk \in {d \in [Files -> {GoFile(q) : q \in SeqsUpTo(StmtChoices, MaxStmts) \ {<<>>}}
                                 \cup {BrokenFile}] :
                 d["B"] \in {GoFile(<<s>>) : s \in StmtChoicesB} \cup {BrokenFile}}
  /\ repl \in Batches
  /\ apErr = NoError
  /\ disk0 = disk
  /\ repl0 = repl

\* replacer.Apply(fname)
ApplyCall(fname, wr) ==
  /\ apPc = "start"
  /\ LET r == Apply(disk, repl, fname, wr)
     IN /\ disk' = r.disk
        /\ repl' = r.repl
        /\ apErr' = r.err
  /\ apOp' = <<"Apply", fname, wr>>
  /\ apPc' = "done"
  /\ UNCHANGED <<disk0, repl0, litVars, lifeVars, auxVars>>

\* replacer.ApplyAll()
ApplyAllCall(wr) ==
  /\ apPc = "start"
  /\ LET r == ApplyAll(disk, repl, wr)
     IN /\ disk' = r.disk
        /\ repl' = r.repl
        /\ apErr' = r.err
  /\ apOp' = <<"ApplyAll", wr>>
  /\ apPc' = "done"
  /\ UNCHANGED <<disk0, repl0, litVars, lifeVars, auxVars>>

ApNext ==
  \/ \E fname \in Files, wr \in WriteOutcomes : ApplyCall(fname, wr)
  \/ \E wr \in [Files -> WriteOutcomes] : ApplyAllCall(wr)

SpecApply == ApInit /\ [][ApNext]_vars

\* ------------------------------------------------------------------------
\* Spec: the test process, its tests, the pipe and the rewriter child
\* ------------------------------------------------------------------------

\* The statements of the test source: one in file A, one in file B.
ProgStmts ==
  {s \in [fn : {"Effect", "FatalEffect"}, eq : BOOLEAN,
          lit : {<<>>, Quote(<<>>), Quote(<<"b">>)}, fmt : {"canon"},
          ctx : {"body"}] : s.eq <=> s.lit # <<>>}

ProgStmtsB == {s \in ProgStmts : s.fn = "Effect" /\ s.lit # Quote(<<>>)}

Init ==
  /\ LitOff
  /\ AuxOff
  /\ apPc = "off"
  /\ apOp = <<>>
  /\ disk \in {d \in [Files -> {GoFile(<<s>>) : s \in ProgStmts}] :
                 d["B"] \in {GoFile(<<s>>) : s \in ProgStmtsB}}
  /\ disk0 = disk
  /\ repl = EmptyMap
  /\ repl0 = EmptyMap
  /\ apErr = NoError
  /\ updatemode \in BOOLEAN
  /\ t = 0
  /\ tstate = [i \in Tests |-> "new"]
  /\ failed = [i \in Tests |-> FALSE]
  /\ calls = [i \in Tests |-> 0]
  /\ res = [i \in Tests |-> NoResult]
  /\ Replacements = EmptyMap
  /\ Incomplete = {}
  /\ log = <<>>
  /\ rewriterPipe = FALSE
  /\ pipe = <<>>
  /\ ppc = "running"
  /\ pexit = 0
  /\ cpc = "none"
  /\ cexit = 0

childVars == <<apPc, apOp, disk, disk0, repl, repl0, apErr, cpc, cexit>>

\* efft.Init(tt) called by test i.
InitCall(i) ==
  /\ ppc = "running"
  /\ tstate[i] = "new"
  /\ IF InitRefused(t)
     THEN \* t.Fatal on the active test; the calling goroutine exits, and the
          \* test runner fails the caller for it.
          /\ failed' = [failed EXCEPT ![t] = TRUE, ![i] = TRUE]
          /\ tstate' = [tstate EXCEPT ![i] = "aborted"]
          /\ UNCHANGED <<t, Replacements, Incomplete, log>>
     ELSE /\ t' = i
          /\ Incomplete' = InitStore(Replacements, Incomplete).Incomplete
          /\ Replacements' = InitStore(Replacements, Incomplete).Replacements
          /\ log' = <<>>
          /\ tstate' = [tstate EXCEPT ![i] = "body"]
          /\ UNCHANGED failed
  /\ UNCHANGED <<updatemode, calls, res, rewriterPipe, pipe, ppc, pexit, childVars, litVars, auxVars>>

\* efft.Effect(args...) or efft.FatalEffect(args...) at the call site loc,
\* the arguments stringified to got.
EffectCall(i, loc, got) ==
  /\ ppc = "running"
  /\ tstate[i] = "body"
  /\ t # 0
  /\ ~res[i].live
  /\ calls[i] < MaxCalls
  /\ LET stmt == StmtAt(disk0, loc)
         r == Replace(Replacements, Incomplete, loc, got)
     IN /\ Replacements' = r.Replacements
        /\ Incomplete' = r.Incomplete
        /\ IF stmt.eq
           THEN /\ res' = [res EXCEPT ![i] = [got |-> got, loc |-> r.loc,
                                              fatal |-> stmt.fn = "FatalEffect",
                                              lit |-> stmt.lit, site |-> loc, live |-> TRUE]]
                /\ UNCHANGED log
           ELSE \* a stub: the result is dropped, no Equals follows
                /\ log' = Append(log, [loc |-> loc, got |-> got, outcome |-> "stub"])
                /\ UNCHANGED res
  /\ calls' = [calls EXCEPT ![i] = @ + 1]
  /\ UNCHANGED <<updatemode, t, tstate, failed, rewriterPipe, pipe, ppc, pexit, childVars, litVars, auxVars>>

\* Equals that reports no mismatch in update mode.
MismatchReportQuietUpdate(upd, fatal) ==
  IF upd THEN "none" ELSE IF fatal THEN "Fatalf" ELSE "Errorf"

\* Equals that never aborts the test.
MismatchReportNeverFatal(upd, fatal) == "Errorf"

\* How Equals reports a mismatch: t.Errorf, after which the test goes on, or
\* t.Fatalf, which ends it.
MismatchReport(upd, fatal) == IF upd \/ ~fatal THEN "Errorf" ELSE "Fatalf"

\* result.Equals(wanted) on the result test i holds.
EqualsCall(i) ==
  /\ ppc = "running"
  /\ tstate[i] = "body"
  /\ res[i].live
  /\ LET r == res[i]
         want == Detab(LitValue(r.lit))
     IN /\ Incomplete' = Incomplete \ {r.loc}
        /\ IF r.got = want
           THEN /\ Replacements' = Delete(Replacements, r.loc)
                /\ UNCHANGED <<failed, tstate>>
           ELSE /\ failed' = [failed EXCEPT ![t] = @ \/ MismatchReport(updatemode, r.fatal) # "none"]
                /\ IF MismatchReport(updatemode, r.fatal) = "Fatalf"
                   THEN tstate' = [tstate EXCEPT ![i] = "cleanup"]
                   ELSE UNCHANGED tstate
                /\ UNCHANGED Replacements
        /\ log' = Append(log, [loc |-> r.site, got |-> r.got,
                               outcome |-> IF r.got = want THEN "pass" ELSE "miss"])
  /\ res' = [res EXCEPT ![i] = NoResult]
  /\ UNCHANGED <<updatemode, t, calls, rewriterPipe, pipe, ppc, pexit, childVars, litVars, auxVars>>

\* The test function returns.
BodyEnd(i) ==
  /\ ppc = "running"
  /\ tstate[i] = "body"
  /\ ~res[i].live
  /\ tstate' = [tstate EXCEPT ![i] = "cleanup"]
  /\ UNCHANGED <<updatemode, t, failed, calls, res, Replacements, Incomplete, log,
                 rewriterPipe, pipe, ppc, pexit, childVars, litVars, auxVars>>

\* A cleanup that reports wrong expectations only.
CleanupFailsWrongOnly(replacements, incomplete) ==
  Cardinality(DOMAIN replacements) > Cardinality(incomplete)

\* The errors the reporting cleanup raises.
CleanupFails(replacements, incomplete) ==
  \/ Cardinality(incomplete) > 0
  \/ Cardinality(DOMAIN replacements) > Cardinality(incomplete)

\* A cleanup that streams pending entries whatever the mode.
CleanupStreamsAlways(upd, replacements) == DOMAIN replacements # {}

\* The cleanup goes on to the rewriter: not "!updatemode ||
\* len(replacements) == 0".
CleanupStreams(upd, replacements) == upd /\ DOMAIN replacements # {}

\* The cleanup registered last by Init, which runs first: report and stream.
CleanupReport(i) ==
  /\ ppc = "running"
  /\ tstate[i] = "cleanup"
  /\ t # 0
  /\ failed' = [failed EXCEPT ![t] = @ \/ CleanupFails(Replacements, Incomplete)]
  /\ IF ~CleanupStreams(updatemode, Replacements)
     THEN UNCHANGED <<rewriterPipe, pipe, cpc>>
     ELSE /\ rewriterPipe' = TRUE
          /\ cpc' = IF rewriterPipe THEN cpc ELSE ChildStart(SpawnEnv)
          /\ \E recs \in Streams(Replacements, Incomplete) : pipe' = pipe \o recs
  /\ tstate' = [tstate EXCEPT ![i] = "reported"]
  /\ UNCHANGED <<updatemode, t, calls, res, Replacements, Incomplete, log, ppc, pexit,
                 apPc, apOp, disk, disk0, repl, repl0, apErr, cexit, litVars, auxVars>>

\* The test process is killed while the reporting cleanup writes a record.
CleanupKilled(i) ==
  /\ ppc = "running"
  /\ tstate[i] = "cleanup"
  /\ t # 0
  /\ CleanupStreams(updatemode, Replacements)
  /\ rewriterPipe' = TRUE
  /\ cpc' = IF rewriterPipe THEN cpc ELSE ChildStart(SpawnEnv)
  /\ \E recs \in Streams(Replacements, Incomplete) : pipe' = Append(pipe, Truncated(recs[1]))
  /\ ppc' = "exited"
  /\ pexit' = 2
  /\ UNCHANGED <<updatemode, t, tstate, failed, calls, res, Replacements, Incomplete, log,
                 apPc, apOp, disk, disk0, repl, repl0, apErr, cexit, litVars, auxVars>>

\* The cleanup registered first by Init, which runs last: t = nil.
CleanupClear(i) ==
  /\ ppc = "running"
  /\ tstate[i] = "reported"
  /\ t' = 0
  /\ tstate' = [tstate EXCEPT ![i] = "ended"]
  /\ UNCHANGED <<updatemode, failed, calls, res, Replacements, Incomplete, log,
                 rewriterPipe, pipe, ppc, pexit, childVars, litVars, auxVars>>

\* All tests are over: the test process exits, which closes the pipe.
ParentExit ==
  /\ ppc = "running"
  /\ \A i \in Tests : tstate[i] \in {"ended", "aborted"}
  /\ ppc' = "exited"
  /\ pexit' = IF \E i \in Tests : failed[i] THEN 1 ELSE 0
  /\ UNCHANGED <<updatemode, t, tstate, failed, calls, res, Replacements, Incomplete, log,
                 rewriterPipe, pipe, childVars, litVars, auxVars>>

\* The child's init: the Scanf loop up to io.EOF, ApplyAll, os.Exit.
ChildRun(wr) ==
  /\ cpc = "reading"
  /\ EndOfInput(ppc = "exited")
  /\ LET rd == ReadReplacements(pipe, EmptyMap)
         r == ApplyAll(disk, rd.repl, wr)
     IN IF rd.ok
        THEN /\ disk' = r.disk
             /\ repl' = r.repl
             /\ apErr' = r.err
             /\ cexit' = IF r.err.kind = "nil" THEN 0 ELSE 1
             /\ repl0' = rd.repl
             /\ apOp' = <<"ApplyAll", wr>>
        ELSE /\ apErr' = [kind |-> "efft.ReadReplacements", file |-> "", lines |-> <<>>]
             /\ cexit' = 1
             /\ repl' = rd.repl
             /\ UNCHANGED <<disk, repl0, apOp>>
  /\ cpc' = "exited"
  /\ UNCHANGED <<apPc, disk0, litVars, auxVars,
                 updatemode, t, tstate, failed, calls, res, Replacements, Incomplete, log,
                 rewriterPipe, pipe, ppc, pexit>>

Next ==
  \/ \E i \in Tests : InitCall(i)
  \/ \E i \in Tests, loc \in CallSites(disk0), got \in Gots : EffectCall(i, loc, got)
  \/ \E i \in Tests : EqualsCall(i)
  \/ \E i \in Tests : BodyEnd(i)
  \/ \E i \in Tests : CleanupReport(i)
  \/ \E i \in Tests : CleanupKilled(i)
  \/ \E i \in Tests : CleanupClear(i)
  \/ ParentExit
  \/ \E wr \in [Files -> WriteOutcomes] : ChildRun(wr)

Spec == Init /\ [][Next]_vars

\* ------------------------------------------------------------------------
\* SpecChild: the rewriter child alone.  Its standard input is fed by a
\* writer, the test process, which writes records and then goes away.
\* ------------------------------------------------------------------------

\* Bound: the number of records the writer puts on the stream.
MaxRecords == 2

\* The locations the records name: one of them matches no statement.
RecordLocs == {Location("A", 1), Location("A", 2), Location("B", 1)}

SpecChildInit ==
  /\ LitOff
  /\ AuxOff
  /\ apPc = "off"
  /\ apOp = <<>>
  /\ disk \in {d \in [Files -> {GoFile(<<s>>) : s \in ProgStmts}] :
                 d["B"] \in {GoFile(<<s>>) : s \in ProgStmtsB}}
  /\ disk0 = disk
  /\ repl = EmptyMap
  /\ repl0 = EmptyMap
  /\ apErr = NoError
  /\ updatemode = TRUE
  /\ t = 0
  /\ tstate = <<>>
  /\ failed = <<>>
  /\ calls = <<>>
  /\ res = <<>>
  /\ Replacements = EmptyMap
  /\ Incomplete = {}
  /\ log = <<>>
  /\ rewriterPipe = TRUE
  /\ pipe = <<>>
  /\ ppc = "running"
  /\ pexit = 0
  /\ cpc = ChildStart(SpawnEnv)
  /\ cexit = 0

writerFrame == <<updatemode, t, tstate, failed, calls, res, Replacements, Incomplete, log,
                 rewriterPipe, childVars, litVars, auxVars>>

\* The test process writes one record: fmt.Fprintf(rewriterPipe, ...).
WriterWrites(loc, newstr) ==
  /\ ppc = "running"
  /\ Len(pipe) < MaxRecords
  /\ pipe' = Append(pipe, WireRecord(loc, newstr))
  /\ UNCHANGED <<ppc, pexit>>
  /\ UNCHANGED writerFrame

\* The test process ends, which closes the pipe: after its tests, or killed
\* inside the Fprintf of a record.
WriterExits(killed, loc, newstr) ==
  /\ ppc = "running"
  /\ IF killed
     THEN pipe' = Append(pipe, Truncated(WireRecord(loc, newstr))) /\ pexit' = 2
     ELSE pipe' = pipe /\ pexit' = 1
  /\ ppc' = "exited"
  /\ UNCHANGED writerFrame

SpecChildNext ==
  \/ \E loc \in RecordLocs, newstr \in NewTexts : WriterWrites(loc, newstr)
  \/ \E killed \in BOOLEAN, loc \in RecordLocs, newstr \in NewTexts : WriterExits(killed, loc, newstr)
  \/ \E wr \in [Files -> WriteOutcomes] : ChildRun(wr)

SpecChild == SpecChildInit /\ [][SpecChildNext]_vars

\* The step in which the test process ends.
WriterEnds == ppc = "running" /\ ppc' = "exited"

\* The step in which the child, at end of input, applies and exits.
ChildEnds == cpc = "reading" /\ EndOfInput(ppc = "exited") /\ cpc' = "exited"

\* The test process ends (its tests end, and the test runner enforces a
\* timeout), and the operating system schedules the child.
FairSpecChild ==
  SpecChildInit /\ [][SpecChildNext]_vars /\ WF_ppc(WriterEnds) /\ WF_cpc(ChildEnds)

\* ------------------------------------------------------------------------
\* SpecConc: goroutines of one test, each making one comparison
\* Effect(...).Equals(...), interleaved at the map operations
\* ------------------------------------------------------------------------

\* Bound: the number of goroutines of the test that make a comparison.
NGoroutines == 2

Goroutines == 1..NGoroutines

\* The call sites of the comparisons.
ConcLocs == {Location("A", 1), Location("A", 2)}

NoLocals == [loc |-> ZeroLoc, got |-> <<>>, want |-> <<>>, rloc |-> ZeroLoc]

\* The map operations of Replace and Equals, in program order, with the map
\* each touches and whether it writes.
\*   find:   _, found := r.Replacements[loc]
\*   mark:   r.Incomplete[loc] = true
\*   store:  r.Replacements[loc] = newstr
\*   unmark: delete(defaultReplacer.Incomplete, r.loc)
\*   drop:   delete(defaultReplacer.Replacements, r.loc)
MapOps == {"find", "mark", "store", "unmark", "drop"}

MapOf(op) == IF op \in {"find", "store", "drop"} THEN "Replacements" ELSE "Incomplete"

Writes(op) == op # "find"

\* The operation goroutine g is in the middle of, "" when in none.
InOp(g) ==
  IF Len(gpc[g]) = 2 /\ gpc[g][2] = "in" THEN gpc[g][1] ELSE ""

\* Two operations in progress at once on one map, one of them a write.
Conflict(op1, op2) ==
  /\ op1 \in MapOps
  /\ op2 \in MapOps
  /\ MapOf(op1) = MapOf(op2)
  /\ (Writes(op1) \/ Writes(op2))

Racing(g) == \E h \in Goroutines \ {g} : Conflict(InOp(g), InOp(h))

SpecConcInit ==
  /\ LitOff
  /\ ApOff
  /\ StrOff
  /\ RwOff
  /\ WireOff
  /\ HelpOff
  /\ DiffOff
  /\ updatemode \in BOOLEAN
  /\ t = 1
  /\ tstate = [i \in Tests |-> IF i = 1 THEN "body" ELSE "new"]
  /\ failed = [i \in Tests |-> FALSE]
  /\ calls = [i \in Tests |-> 0]
  /\ res = [i \in Tests |-> NoResult]
  /\ Replacements = EmptyMap
  /\ Incomplete = {}
  /\ log = <<>>
  /\ rewriterPipe = FALSE
  /\ pipe = <<>>
  /\ ppc = "running"
  /\ pexit = 0
  /\ cpc = "none"
  /\ cexit = 0
  /\ mu = 0
  /\ gpc = [g \in Goroutines |-> <<"idle">>]
  /\ greg = [g \in Goroutines |-> NoLocals]

concFrame == <<updatemode, t, tstate, calls, res, log, rewriterPipe, pipe, cpc, cexit,
               apVars, litVars, strVars, rwVars, wireVars, helpVars, diffVars>>

\* Goroutine g calls Effect(args...) at loc; Equals(want) will follow.
GoEffect(g, loc, got, want) ==
  /\ ppc = "running"
  /\ gpc[g] = <<"idle">>
  /\ greg' = [greg EXCEPT ![g] = [loc |-> loc, got |-> got, want |-> want, rloc |-> ZeroLoc]]
  /\ gpc' = [gpc EXCEPT ![g] = <<"lock">>]
  /\ UNCHANGED <<mu, Replacements, Incomplete, failed, ppc, pexit, concFrame>>

\* Replace: r.Lock()
GoLock(g) ==
  /\ ppc = "running"
  /\ gpc[g] = <<"lock">>
  /\ mu = 0
  /\ mu' = g
  /\ gpc' = [gpc EXCEPT ![g] = <<"find">>]
  /\ UNCHANGED <<greg, Replacements, Incomplete, failed, ppc, pexit, concFrame>>

\* Goroutine g enters its next map operation.
GoMapBegin(g) ==
  /\ ppc = "running"
  /\ Len(gpc[g]) = 1
  /\ gpc[g][1] \in MapOps
  /\ gpc' = [gpc EXCEPT ![g] = <<gpc[g][1], "in">>]
  /\ UNCHANGED <<mu, greg, Replacements, Incomplete, failed, ppc, pexit, concFrame>>

\* Goroutine g leaves its map operation, which takes effect.
GoMapEnd(g) ==
  /\ ppc = "running"
  /\ InOp(g) \in MapOps
  /\ LET op == InOp(g)
         l == greg[g]
     IN CASE op = "find" ->
               /\ IF l.loc \in DOMAIN Replacements
                  THEN /\ gpc' = [gpc EXCEPT ![g] = <<"unlock">>]
                       /\ greg' = [greg EXCEPT ![g].rloc = ZeroLoc]
                  ELSE /\ gpc' = [gpc EXCEPT ![g] = <<"mark">>]
                       /\ UNCHANGED greg
               /\ UNCHANGED <<Replacements, Incomplete, failed>>
          [] op = "mark" ->
               /\ Incomplete' = Incomplete \cup {l.loc}
               /\ gpc' = [gpc EXCEPT ![g] = <<"store">>]
               /\ UNCHANGED <<greg, Replacements, failed>>
          [] op = "store" ->
               /\ Replacements' = [k \in DOMAIN Replacements \cup {l.loc} |->
                                     IF k = l.loc THEN l.got ELSE Replacements[k]]
               /\ greg' = [greg EXCEPT ![g].rloc = l.loc]
               /\ gpc' = [gpc EXCEPT ![g] = <<"unlock">>]
               /\ UNCHANGED <<Incomplete, failed>>
          [] op = "unmark" ->
               /\ Incomplete' = Incomplete \ {l.rloc}
               /\ IF l.got = l.want
                  THEN /\ gpc' = [gpc EXCEPT ![g] = <<"drop">>]
                       /\ UNCHANGED failed
                  ELSE \* t.Errorf or t.Fatalf
                       /\ gpc' = [gpc EXCEPT ![g] = <<"done">>]
                       /\ failed' = [failed EXCEPT ![t] = TRUE]
               /\ UNCHANGED <<greg, Replacements>>
          [] op = "drop" ->
               /\ Replacements' = Delete(Replacements, l.rloc)
               /\ gpc' = [gpc EXCEPT ![g] = <<"done">>]
               /\ UNCHANGED <<greg, Incomplete, failed>>
  /\ UNCHANGED <<mu, ppc, pexit, concFrame>>

\* Replace: the deferred r.Unlock(); Effect returns the result and Equals is
\* called on it.
GoUnlock(g) ==
  /\ ppc = "running"
  /\ gpc[g] = <<"unlock">>
  /\ mu' = 0
  /\ gpc' = [gpc EXCEPT ![g] = <<"unmark">>]
  /\ UNCHANGED <<greg, Replacements, Incomplete, failed, ppc, pexit, concFrame>>

\* The runtime detects the concurrent map access of g and another goroutine
\* and throws ("fatal error: concurrent map writes"): the process dies.
\* When it does not, the two operations take effect in either order.
GoMapFault(g) ==
  /\ ppc = "running"
  /\ Racing(g)
  /\ ppc' = "exited"
  /\ pexit' = 2
  /\ UNCHANGED <<mu, gpc, greg, Replacements, Incomplete, failed, concFrame>>

SpecConcNext ==
  \/ \E g \in Goroutines, loc \in ConcLocs, got \in Gots, want \in Gots : GoEffect(g, loc, got, want)
  \/ \E g \in Goroutines : GoLock(g)
  \/ \E g \in Goroutines : GoMapBegin(g)
  \/ \E g \in Goroutines : GoMapEnd(g)
  \/ \E g \in Goroutines : GoUnlock(g)
  \/ \E g \in Goroutines : GoMapFault(g)

SpecConc == SpecConcInit /\ [][SpecConcNext]_vars

\* ------------------------------------------------------------------------
\* SpecStr: one call of efft.Stringify
\* ------------------------------------------------------------------------

\* Bound: the number of arguments of a Stringify call.
MaxArgs == 3

\* Go values: kind is the dynamic type, s the text of a string, the digits
\* of an int or the message of an error, str what String() returns, b the
\* value of a bool, elems the elements of a []any.
Val(kind, s, str, b, elems) == [kind |-> kind, s |-> s, str |-> str, b |-> b, elems |-> elems]

GoString(s) == Val("string", s, <<>>, FALSE, <<>>)

GoInt(digits) == Val("int", digits, <<>>, FALSE, <<>>)

GoBool(b) == Val("bool", <<>>, <<>>, b, <<>>)

GoNil == Val("nil", <<>>, <<>>, FALSE, <<>>)

\* An error made by errors.New or fmt.Errorf.
GoError(msg) == Val("error", msg, <<>>, FALSE, <<>>)

\* A value of a type with a String method.
GoStringer(str) == Val("stringer", <<>>, str, FALSE, <<>>)

\* An error of a type that has a String method as well.
GoStringerError(msg, str) == Val("stringerError", msg, str, FALSE, <<>>)

GoSlice(elems) == Val("slice", <<>>, <<>>, FALSE, elems)

\* The argument values of the calls.
Vals ==
  {GoString(<<"a">>), GoInt(<<"1">>), GoBool(TRUE), GoBool(FALSE), GoNil,
   GoError(<<"E">>), GoStringer(<<"S">>), GoStringerError(<<"E">>, <<"S">>)}

\* v.(fmt.Stringer)
IsStringer(v) == v.kind \in {"stringer", "stringerError"}

\* v.(error)
IsError(v) == v.kind \in {"error", "stringerError"}

\* json.MarshalIndent of a value that is not a slice: a string is quoted, a
\* struct without exported fields, as the error and Stringer values are,
\* gives {}.
JsonScalar(v) ==
  CASE v.kind = "string" -> <<DQ>> \o v.s \o <<DQ>>
    [] v.kind = "int" -> v.s
    [] v.kind = "bool" -> IF v.b THEN <<"true">> ELSE <<"false">>
    [] v.kind = "nil" -> <<"null">>
    [] OTHER -> <<"{", "}">>

\* The elements of a JSON array, one per line, indented by two spaces.
RECURSIVE JsonElems(_)
JsonElems(q) ==
  IF Len(q) = 0 THEN <<>>
  ELSE <<NL, " ", " ">> \o JsonScalar(q[1]) \o (IF Len(q) > 1 THEN <<",">> ELSE <<>>)
       \o JsonElems(Tail(q))

\* json.MarshalIndent(v, "", "  ")
Json(v) ==
  IF v.kind = "slice"
  THEN IF Len(v.elems) = 0 THEN <<"[", "]">>
       ELSE <<"[">> \o JsonElems(v.elems) \o <<NL, "]">>
  ELSE JsonScalar(v)

\* stringify1 that looks for the error before the Stringer.
stringify1ErrorFirst(v) ==
  IF IsError(v) THEN v.s
  ELSE IF IsStringer(v) THEN v.str
  ELSE IF v.kind \in {"string", "int"} THEN v.s
  ELSE Json(v)

stringify1(v) ==
  IF IsStringer(v) THEN v.str
  ELSE IF IsError(v) THEN v.s
  ELSE IF v.kind \in {"string", "int"} THEN v.s
  ELSE Json(v)

\* args[:len(args)-1] that keeps the last value.
DropLastKeepsAll(args) == args

\* args[:len(args)-1]
DropLast(args) == SubSeq(args, 1, Len(args) - 1)

\* Stringify that treats a trailing false like a trailing true.
StringifyDropsFalse(args) ==
  IF Len(args) = 0 THEN <<>>
  ELSE IF Len(args) = 1 THEN stringify1(args[1])
  ELSE LET lastarg == args[Len(args)]
       IN IF lastarg.kind = "bool" \/ lastarg.kind = "nil"
          THEN IF Len(args) = 2 THEN stringify1(args[1]) ELSE stringify1(GoSlice(DropLast(args)))
          ELSE IF IsError(lastarg) THEN stringify1(lastarg)
          ELSE stringify1(GoSlice(args))

Stringify(args) ==
  IF Len(args) = 0 THEN <<>>
  ELSE IF Len(args) = 1 THEN stringify1(args[1])
  ELSE LET lastarg == args[Len(args)]
       IN IF lastarg.kind = "bool"
          THEN IF ~lastarg.b THEN stringify1(GoSlice(args))
               ELSE IF Len(args) = 2 THEN stringify1(args[1])
               ELSE stringify1(GoSlice(DropLast(args)))
          ELSE IF IsError(lastarg) \/ lastarg.kind = "nil"
          THEN IF IsError(lastarg) THEN stringify1(lastarg)
               ELSE IF Len(args) = 2 THEN stringify1(args[1])
               ELSE stringify1(GoSlice(DropLast(args)))
          ELSE stringify1(GoSlice(args))

StrInit ==
  /\ LitOff
  /\ ApOff
  /\ LifeOff
  /\ ConcOff
  /\ RwOff
  /\ WireOff
  /\ HelpOff
  /\ DiffOff
  /\ strPc = "start"
  /\ strArgs \in SeqsUpTo(Vals, MaxArgs)
  /\ strOut = <<>>

\* efft.Stringify(args...)
StringifyCall ==
  /\ strPc = "start"
  /\ strOut' = Stringify(strArgs)
  /\ strPc' = "done"
  /\ UNCHANGED <<strArgs, concVars, litVars, apVars, lifeVars, rwVars, wireVars, helpVars,
                 diffVars>>

StrNext == StringifyCall

SpecStr == StrInit /\ [][StrNext]_vars

\* ------------------------------------------------------------------------
\* SpecRewrite: Apply on a file of statements of every shape, then Apply
\* again with the same batch on the file as written
\* ------------------------------------------------------------------------

\* Equals(3)
ArgNumber == <<"3">>

\* Equals("a", "b")
ArgSeveral == Quote(<<"a">>) \o <<",", " ">> \o Quote(<<"b">>)

\* The statements of the files of SpecRewrite: the marker call alone,
\* Equals(), Equals("a"), Equals(3), Equals("a", "b"), with or without a
\* trailing comment, in the function body or in a function literal.  The
\* arguments stand on one line.
StmtShapes ==
  {s \in [fn : {"Effect", "FatalEffect", "Log"}, eq : BOOLEAN,
          lit : {<<>>, OldLit, ArgNumber, ArgSeveral}, fmt : {"canon", "cmt"},
          ctx : {"body", "go", "sub", "call"}] :
     /\ ~s.eq => s.lit = <<>>
     /\ s.fn = "Log" => ~s.eq /\ s.fmt = "canon" /\ ~Nested(s)
     /\ s.fn = "FatalEffect" => s.lit = OldLit /\ s.fmt = "canon" /\ ~Nested(s)
     /\ s.fmt = "cmt" => s.lit \in {<<>>, OldLit} /\ (s.eq <=> s.lit # <<>>)
     /\ Nested(s) => s.lit = OldLit /\ s.fmt = "canon"}

\* Statements of the function body without a trailing comment.
PlainShapes ==
  {s \in StmtShapes : ~Nested(s) /\ s.fmt = "canon" /\ s.fn # "FatalEffect"
                      /\ s.lit \in {<<>>, OldLit} /\ (s.eq <=> s.lit # <<>>)}

\* Bound: the number of statements of a file of plain statements.
MaxPlain == 4

RewriteFiles ==
  {GoFile(q) : q \in SeqsUpTo(StmtShapes, MaxStmts) \ {<<>>}}
    \cup {GoFile(q) : q \in [1..MaxPlain -> PlainShapes]}

\* File B: one statement that is no marker call.
OtherFile == GoFile(<<CHOOSE s \in PlainShapes : s.fn = "Log">>)

RewriteLocs == {Location("A", l) : l \in 1..(MaxStmts + 2)}

RewriteBatches ==
  UNION {[D -> NewTexts] :
           D \in {S \in SUBSET RewriteLocs : 1 <= Cardinality(S) /\ Cardinality(S) <= MaxBatch}}

RewriteInit ==
  /\ LitOff
  /\ LifeOff
  /\ ConcOff
  /\ StrOff
  /\ WireOff
  /\ HelpOff
  /\ DiffOff
  /\ apPc = "start"
  /\ apOp = <<>>
  /\ disk \in {[x \in Files |-> IF x = "A" THEN f ELSE OtherFile] : f \in RewriteFiles}
  /\ repl \in RewriteBatches
  /\ apErr = NoError
  /\ disk0 = disk
  /\ repl0 = repl
  /\ disk1 = disk
  /\ err1 = NoError

\* replacer.Apply("A") with the batch in r.Replacements
ApplyOnce(wr) ==
  /\ apPc = "start"
  /\ LET r == Apply(disk, repl, "A", wr)
     IN /\ disk' = r.disk
        /\ repl' = r.repl
        /\ apErr' = r.err
        /\ disk1' = r.disk
        /\ err1' = r.err
  /\ apOp' = <<"Apply", "A", wr>>
  /\ apPc' = "once"
  /\ UNCHANGED <<disk0, repl0, litVars, lifeVars, concVars, strVars, wireVars, helpVars, diffVars>>

\* replacer.Apply("A") of a Replacer holding the same batch, on the file the
\* first call wrote
ApplyAgain(wr) ==
  /\ apPc = "once"
  /\ err1 = NoError
  /\ LET r == Apply(disk, repl0, "A", wr)
     IN /\ disk' = r.disk
        /\ repl' = r.repl
        /\ apErr' = r.err
  /\ apOp' = <<"Apply", "A", wr>>
  /\ apPc' = "twice"
  /\ UNCHANGED <<disk0, repl0, disk1, err1, litVars, lifeVars, concVars, strVars, wireVars, helpVars, diffVars>>

RewriteNext ==
  \/ \E wr \in WriteOutcomes : ApplyOnce(wr)
  \/ \E wr \in WriteOutcomes : ApplyAgain(wr)

SpecRewrite == RewriteInit /\ [][RewriteNext]_vars

\* ------------------------------------------------------------------------
\* SpecStream: the bytes of the replacement stream, written by the cleanup's
\* Fprintf loop and read by the Scanf loop of the child's init
\* ------------------------------------------------------------------------

SP == "SP"

DigitChars == <<"0", "1", "2", "3", "4", "5", "6", "7", "8", "9">>

\* %d of a non-negative int
RECURSIVE Decimal(_)
Decimal(n) ==
  IF n < 10 THEN <<DigitChars[n + 1]>>
  ELSE Decimal(n \div 10) \o <<DigitChars[(n % 10) + 1]>>

\* A Fprintf that writes the strings with %s.
WireBytesPlain(loc, newstr) ==
  <<DQ>> \o loc[1] \o <<DQ, SP>> \o Decimal(loc[2]) \o <<SP, DQ>> \o newstr \o <<DQ, NL>>

\* fmt.Fprintf(rewriterPipe, "%q %d %q\n", loc.Fname, loc.Line, newstr)
WireBytes(loc, newstr) ==
  Quote(loc[1]) \o <<SP>> \o Decimal(loc[2]) \o <<SP>> \o Quote(newstr) \o <<NL>>

RECURSIVE Concat(_)
Concat(qs) == IF Len(qs) = 0 THEN <<>> ELSE qs[1] \o Concat(Tail(qs))

\* The bytes the loop "for loc, newstr := range replacements" may write.
WireStreams(replacements) ==
  {Concat([i \in 1..Len(q) |-> WireBytes(q[i], replacements[q[i]])]) :
     q \in Orders(DOMAIN replacements)}

\* ss.SkipSpace of Scanf: blanks are skipped, a line break is not.
RECURSIVE SkipBlanks(_)
SkipBlanks(s) ==
  IF Len(s) > 0 /\ s[1] \in {SP, TAB} THEN SkipBlanks(Tail(s)) ELSE s

\* The verb %q of Scanf: the quoted string at the head of s.
ScanQuoted(s0) ==
  LET s == SkipBlanks(s0)
  IN IF Len(s) = 0 THEN [err |-> "EOF", val |-> <<>>, rest |-> s]
     ELSE IF s[1] = NL THEN [err |-> "unexpected newline", val |-> <<>>, rest |-> s]
     ELSE IF s[1] = DQ
     THEN LET c == ClosingQuote(s, 2)
          IN IF c = 0 THEN [err |-> "unexpected EOF", val |-> <<>>, rest |-> <<>>]
             ELSE IF Contains(SubSeq(s, 2, c - 1), NL)
             THEN [err |-> "invalid syntax", val |-> <<>>, rest |-> <<>>]
             ELSE [err |-> "nil", val |-> UnquoteBody(SubSeq(s, 2, c - 1)), rest |-> Drop(s, c)]
     ELSE IF s[1] = BT
     THEN LET ends == {i \in 2..Len(s) : s[i] = BT}
          IN IF ends = {} THEN [err |-> "unexpected EOF", val |-> <<>>, rest |-> <<>>]
             ELSE LET c == CHOOSE i \in ends : \A j \in ends : i <= j
                  IN [err |-> "nil", val |-> SubSeq(s, 2, c - 1), rest |-> Drop(s, c)]
     ELSE [err |-> "expected quoted string", val |-> <<>>, rest |-> s]

IsDigit(c) == \E d \in 1..10 : DigitChars[d] = c

DigitValue(c) == (CHOOSE d \in 1..10 : DigitChars[d] = c) - 1

RECURSIVE DigitsLen(_)
DigitsLen(s) == IF Len(s) > 0 /\ IsDigit(s[1]) THEN 1 + DigitsLen(Tail(s)) ELSE 0

RECURSIVE DecimalValue(_)
DecimalValue(s) ==
  IF Len(s) = 0 THEN 0 ELSE 10 * DecimalValue(SubSeq(s, 1, Len(s) - 1)) + DigitValue(s[Len(s)])

\* The verb %d of Scanf: the digits at the head of s.
ScanInt(s0) ==
  LET s == SkipBlanks(s0)
  IN IF Len(s) = 0 THEN [err |-> "EOF", val |-> 0, rest |-> s]
     ELSE IF s[1] = NL THEN [err |-> "unexpected newline", val |-> 0, rest |-> s]
     ELSE LET n == DigitsLen(s)
          IN IF n = 0 THEN [err |-> "expected integer", val |-> 0, rest |-> s]
             ELSE [err |-> "nil", val |-> DecimalValue(SubSeq(s, 1, n)), rest |-> Drop(s, n)]

\* A space of the format: matches one or more blanks, or the end of input.
ScanSpace(s) ==
  IF Len(s) = 0 THEN [err |-> "nil", rest |-> s]
  ELSE IF s[1] = NL THEN [err |-> "newline in input does not match format", rest |-> s]
  ELSE IF s[1] \notin {SP, TAB} THEN [err |-> "expected space in input to match format", rest |-> s]
  ELSE [err |-> "nil", rest |-> SkipBlanks(s)]

\* The trailing "\n" of the format: matches a line break or the end of input.
ScanNewline(s0) ==
  LET s == SkipBlanks(s0)
  IN IF Len(s) = 0 THEN [err |-> "nil", rest |-> s]
     ELSE IF s[1] = NL THEN [err |-> "nil", rest |-> Tail(s)]
     ELSE [err |-> "newline in format does not match input", rest |-> s]

\* n, err := fmt.Scanf("%q %d %q\n", &fname, &line, &newstr) on the input s
Scanf(s) ==
  LET f == ScanQuoted(s)
      s1 == ScanSpace(f.rest)
      l == ScanInt(s1.rest)
      s2 == ScanSpace(l.rest)
      t3 == ScanQuoted(s2.rest)
      e == ScanNewline(t3.rest)
      none == [fname |-> <<>>, line |-> 0, newstr |-> <<>>, rest |-> <<>>]
  IN IF f.err # "nil" THEN [n |-> 0, err |-> f.err] @@ none
     ELSE IF s1.err # "nil" THEN [n |-> 1, err |-> s1.err] @@ none
     ELSE IF l.err # "nil" THEN [n |-> 1, err |-> l.err] @@ none
     ELSE IF s2.err # "nil" THEN [n |-> 2, err |-> s2.err] @@ none
     ELSE IF t3.err # "nil" THEN [n |-> 2, err |-> t3.err] @@ none
     ELSE [n |-> 3, err |-> e.err, fname |-> f.val, line |-> l.val, newstr |-> t3.val,
           rest |-> e.rest]

\* A read loop that stops without error at the first record that fails.
RECURSIVE ReadStreamLenient(_, _)
ReadStreamLenient(s, m) ==
  LET r == Scanf(s)
  IN IF r.err # "nil" THEN [ok |-> TRUE, repl |-> m]
     ELSE LET loc == Location(r.fname, r.line)
          IN ReadStreamLenient(r.rest, [x \in DOMAIN m \cup {loc} |->
                                          IF x = loc THEN r.newstr ELSE m[x]])

\* The loop of init over standard input: the map it builds, and whether it
\* reached the end of input without error.
RECURSIVE ReadStream(_, _)
ReadStream(s, m) ==
  LET r == Scanf(s)
  IN IF r.n = 0 /\ r.err = "EOF" THEN [ok |-> TRUE, repl |-> m]
     ELSE IF r.err # "nil" THEN [ok |-> FALSE, repl |-> m]
     ELSE LET loc == Location(r.fname, r.line)
          IN ReadStream(r.rest, [x \in DOMAIN m \cup {loc} |-> IF x = loc THEN r.newstr ELSE m[x]])

\* The characters of the paths and texts of SpecStream.
WireAlphabet == {"a", "n", SP, NL, DQ, BS}

\* Bound: the longest text of a stream of one record.
MaxWireLen == 2

RECURSIVE WireTextsUpTo(_)
WireTextsUpTo(n) ==
  IF n = 0 THEN {<<>>}
  ELSE LET shorter == WireTextsUpTo(n - 1)
       IN shorter \cup {Append(s, c) : s \in {x \in shorter : Len(x) = n - 1}, c \in WireAlphabet}

\* The texts of the streams of several records.
WireTexts == {<<>>, <<"a", NL>>, <<BS, DQ>>}

\* The paths of the files A and B.
PathOf == [f \in Files |-> IF f = "A" THEN <<"a">> ELSE <<"a", SP, BS, "n">>]

WirePaths == {PathOf[f] : f \in Files}

FileOfPath(p) == CHOOSE f \in Files : PathOf[f] = p

\* The map the child read, keyed by the files of the model.
ByFile(m) ==
  [l \in {Location(FileOfPath(k[1]), k[2]) : k \in DOMAIN m} |-> m[<<PathOf[l[1]], l[2]>>]]

\* The source files of SpecStream: each holds one marker call on line 1.
StreamDisk ==
  [f \in Files |-> GoFile(<<[fn |-> "Effect", eq |-> TRUE, lit |-> OldLit, fmt |-> "canon",
                              ctx |-> "body"]>>)]

WireLines == {1, 12}

WireLocs == WirePaths \X WireLines

\* Bound: the number of records of a stream.
MaxWire == 2

WireMaps ==
  UNION ({[{l} -> WireTextsUpTo(MaxWireLen)] : l \in WireLocs}
         \cup {[D -> WireTexts] :
                 D \in {S \in SUBSET WireLocs : 2 <= Cardinality(S) /\ Cardinality(S) <= MaxWire}})

StreamInit ==
  /\ LitOff
  /\ LifeOff
  /\ apPc = "off"
  /\ apOp = <<>>
  /\ disk = StreamDisk
  /\ disk0 = StreamDisk
  /\ repl = EmptyMap
  /\ repl0 = EmptyMap
  /\ apErr = NoError
  /\ ConcOff
  /\ StrOff
  /\ RwOff
  /\ HelpOff
  /\ DiffOff
  /\ wirePc = "start"
  /\ wireMap \in WireMaps
  /\ wireBytes = <<>>
  /\ wireFault = "none"
  /\ wireGot = <<>>

lifeNoExit == <<updatemode, t, tstate, failed, calls, res, Replacements, Incomplete, log,
                rewriterPipe, pipe, ppc, pexit, cpc>>

streamFrame == <<litVars, lifeNoExit, concVars, strVars, rwVars, helpVars, diffVars>>

childFiles == <<apPc, apOp, disk, repl, apErr, disk0, repl0, cexit>>

\* The positions of a record outside the two quoted strings' contents: the
\* four quotes, the two spaces, the digits and the line break.
Structural(loc, newstr) ==
  LET a == Len(Quote(loc[1]))
      b == Len(WireBytes(loc, newstr))
      c == b - Len(Quote(newstr))
  IN {1} \cup (a..c) \cup {b - 1, b}

\* The cleanup streams every entry and the parent exits.
StreamWrite ==
  /\ wirePc = "start"
  /\ wireBytes' \in WireStreams(wireMap)
  /\ wirePc' = "written"
  /\ UNCHANGED <<wireMap, wireFault, wireGot, streamFrame, childFiles>>

\* The parent dies inside the Fprintf of a record: the child's input ends
\* after k bytes, inside a record.
StreamCut(k) ==
  /\ wirePc = "start"
  /\ \E s \in WireStreams(wireMap) :
       /\ 0 < k
       /\ k < Len(s)
       /\ s[k] # NL
       /\ wireBytes' = SubSeq(s, 1, k)
  /\ wireFault' = "cut"
  /\ wirePc' = "written"
  /\ UNCHANGED <<wireMap, wireGot, streamFrame, childFiles>>

\* One record of the stream is malformed: the byte at one of its structural
\* positions is a letter.
StreamGarble(k) ==
  /\ wirePc = "start"
  /\ \E q \in Orders(DOMAIN wireMap) : \E j \in 1..Len(q) :
       /\ k \in Structural(q[j], wireMap[q[j]])
       /\ wireBytes' = Concat([i \in 1..Len(q) |->
                                 IF i = j
                                 THEN [b \in 1..Len(WireBytes(q[i], wireMap[q[i]])) |->
                                         IF b = k THEN "a" ELSE WireBytes(q[i], wireMap[q[i]])[b]]
                                 ELSE WireBytes(q[i], wireMap[q[i]])])
  /\ wireFault' = "garbled"
  /\ wirePc' = "written"
  /\ UNCHANGED <<wireMap, wireGot, streamFrame, childFiles>>

\* The child's init at end of input: the Scanf loop, then ApplyAll, then
\* os.Exit.
StreamRead(wr) ==
  /\ wirePc = "written"
  /\ LET rd == ReadStream(wireBytes, EmptyMap)
         r == ApplyAll(disk, ByFile(rd.repl), wr)
     IN /\ wireGot' = rd
        /\ IF rd.ok
           THEN /\ disk' = r.disk
                /\ repl' = r.repl
                /\ apErr' = r.err
                /\ cexit' = IF r.err.kind = "nil" THEN 0 ELSE 1
                /\ repl0' = ByFile(rd.repl)
                /\ apOp' = <<"ApplyAll", wr>>
           ELSE /\ apErr' = [kind |-> "efft.ReadReplacements", file |-> "", lines |-> <<>>]
                /\ cexit' = 1
                /\ repl' = EmptyMap
                /\ UNCHANGED <<disk, repl0, apOp>>
  /\ wirePc' = "read"
  /\ UNCHANGED <<wireMap, wireBytes, wireFault, streamFrame, apPc, disk0>>

\* Bound: the longest stream a cut is taken from.
MaxCutLen == 24

StreamNext ==
  \/ StreamWrite
  \/ \E k \in 1..MaxCutLen : StreamCut(k)
  \/ \E k \in 1..MaxCutLen : StreamGarble(k)
  \/ \E wr \in [Files -> WriteOutcomes] : StreamRead(wr)

SpecStream == StreamInit /\ [][StreamNext]_vars

\* ------------------------------------------------------------------------
\* SpecHelpers: tests run one after the other; a test may call Init, the
\* marker calls, Must, Must1, Must2 and Override, and ends by running the
\* functions registered with t.Cleanup
\* ------------------------------------------------------------------------

\* Bound: the number of tests of the run.
MaxRuns == 2

\* Bound: the number of calls a test body makes.
MaxOps == 3

\* The values Override is called with; *p is 0 when the process starts.
OverrideValues == {1, 2}

\* The err argument of Must, Must1 and Must2.
MustArgs == {"nil", "true", "false", "error"}

MarkerLocs == {Location("A", 1), Location("A", 2)}

Helpers == {"Effect", "FatalEffect", "Must", "Must1", "Must2", "Override"}

\* A checkT that lets every call through.
checkTNever(active) == "nil"

\* checkT(): the panic it raises, "nil" when it returns.
checkT(active) == IF active = 0 THEN "efft.MissingInit" ELSE "nil"

\* Must(err): whether it ends the test with t.Fatal / t.Fatalf.
MustFails(err) == err \in {"false", "error"}

\* Cleanups run in the order they were registered.
NextCleanupFirst(stack) == 1

\* The testing package runs the cleanups last registered, first run.
NextCleanup(stack) == Len(stack)

RemoveAt(q, k) == [i \in 1..(Len(q) - 1) |-> IF i < k THEN q[i] ELSE q[i + 1]]

CallRecord(n, fn, active, outcome, msg) ==
  [n |-> n, fn |-> fn, active |-> active, outcome |-> outcome, msg |-> msg]

HelpInit ==
  /\ LitOff
  /\ ApOff
  /\ LifeOff
  /\ ConcOff
  /\ StrOff
  /\ RwOff
  /\ WireOff
  /\ DiffOff
  /\ hcur = 0
  /\ hphase = "idle"
  /\ hdone = 0
  /\ hstack = <<>>
  /\ px = 0
  /\ pxStart = 0
  /\ hovers = <<>>
  /\ hlast = CallRecord(0, "none", 0, "ok", "")
  /\ hops = 0

lifeRest == <<updatemode, tstate, failed, calls, res, log, rewriterPipe, pipe, ppc, pexit,
              cpc, cexit>>

helpFrame == <<litVars, apVars, lifeRest, concVars, strVars, rwVars, wireVars, diffVars>>

\* The test runner starts the next test function.
TestStart ==
  /\ hphase = "idle"
  /\ hdone < MaxRuns
  /\ hcur' = hdone + 1
  /\ hphase' = "body"
  /\ hstack' = <<>>
  /\ pxStart' = px
  /\ hovers' = <<>>
  /\ hops' = 0
  /\ UNCHANGED <<hdone, px, hlast, t, Replacements, Incomplete, helpFrame>>

\* efft.Init(tt)
HelpInitCall ==
  /\ hphase = "body"
  /\ hops < MaxOps
  /\ hops' = hops + 1
  /\ IF InitRefused(t)
     THEN \* t.Fatal: the test function is left, its cleanups run
          /\ hphase' = "cleanup"
          /\ hlast' = CallRecord(hlast.n + 1, "Init", t, "fatal", "efft.UnsupportedParallelTesting")
          /\ UNCHANGED <<t, Replacements, Incomplete, hstack>>
     ELSE /\ t' = hcur
          /\ Incomplete' = InitStore(Replacements, Incomplete).Incomplete
          /\ Replacements' = InitStore(Replacements, Incomplete).Replacements
          /\ hstack' = hstack \o <<[kind |-> "clear", val |-> 0], [kind |-> "report", val |-> 0]>>
          /\ hlast' = CallRecord(hlast.n + 1, "Init", t, "ok", "")
          /\ UNCHANGED hphase
  /\ UNCHANGED <<hcur, hdone, px, pxStart, hovers, helpFrame>>

\* A call that panics: the test binary dies.
Panics(fn, msg) ==
  /\ hphase' = "panicked"
  /\ hlast' = CallRecord(hlast.n + 1, fn, t, "panic", msg)
  /\ UNCHANGED <<hcur, hdone, hstack, px, pxStart, hovers, t, Replacements, Incomplete>>

\* efft.Effect(args...) or efft.FatalEffect(args...) at loc; the result is
\* dropped.
MarkerCall(fn, loc, got) ==
  /\ hphase = "body"
  /\ hops < MaxOps
  /\ hops' = hops + 1
  /\ IF checkT(t) # "nil"
     THEN Panics(fn, checkT(t))
     ELSE LET r == Replace(Replacements, Incomplete, loc, got)
          IN /\ Replacements' = r.Replacements
             /\ Incomplete' = r.Incomplete
             /\ hlast' = CallRecord(hlast.n + 1, fn, t, "ok", "")
             /\ UNCHANGED <<hcur, hphase, hdone, hstack, px, pxStart, hovers, t>>
  /\ UNCHANGED helpFrame

\* efft.Must(err), efft.Must1(v, err), efft.Must2(a, b, err)
MustCall(fn, err) ==
  /\ hphase = "body"
  /\ hops < MaxOps
  /\ hops' = hops + 1
  /\ IF checkT(t) # "nil"
     THEN Panics(fn, checkT(t))
     ELSE /\ hphase' = IF MustFails(err) THEN "cleanup" ELSE "body"
          /\ hlast' = CallRecord(hlast.n + 1, fn, t, IF MustFails(err) THEN "fatal" ELSE "ok",
                                 IF err = "false" THEN "efft.UnexpectedFailure"
                                 ELSE IF err = "error" THEN "efft.UnexpectedError" ELSE "")
          /\ UNCHANGED <<hcur, hdone, hstack, px, pxStart, hovers, t, Replacements, Incomplete>>
  /\ UNCHANGED helpFrame

\* efft.Override(&x, v)
OverrideCall(v) ==
  /\ hphase = "body"
  /\ hops < MaxOps
  /\ hops' = hops + 1
  /\ IF checkT(t) # "nil"
     THEN Panics("Override", checkT(t))
     ELSE /\ hstack' = Append(hstack, [kind |-> "restore", val |-> px])
          /\ px' = v
          /\ hovers' = Append(hovers, v)
          /\ hlast' = CallRecord(hlast.n + 1, "Override", t, "ok", "")
          /\ UNCHANGED <<hcur, hphase, hdone, pxStart, t, Replacements, Incomplete>>
  /\ UNCHANGED helpFrame

\* The test function returns.
HelpBodyEnd ==
  /\ hphase = "body"
  /\ hphase' = "cleanup"
  /\ UNCHANGED <<hcur, hdone, hstack, px, pxStart, hovers, hlast, hops, t, Replacements,
                 Incomplete, helpFrame>>

\* The test runner calls one registered cleanup.
CleanupRun ==
  /\ hphase = "cleanup"
  /\ hstack # <<>>
  /\ LET k == NextCleanup(hstack)
         f == hstack[k]
     IN /\ hstack' = RemoveAt(hstack, k)
        /\ px' = IF f.kind = "restore" THEN f.val ELSE px
        /\ t' = IF f.kind = "clear" THEN 0 ELSE t
        /\ hlast' = IF f.kind = "report"
                    THEN CallRecord(hlast.n + 1, "report", t, "ok", "")
                    ELSE hlast
  /\ UNCHANGED <<hcur, hphase, hdone, pxStart, hovers, hops, Replacements, Incomplete, helpFrame>>

\* Every cleanup has run: the test has ended.
TestEnd ==
  /\ hphase = "cleanup"
  /\ hstack = <<>>
  /\ hphase' = "idle"
  /\ hcur' = 0
  /\ hdone' = hdone + 1
  /\ UNCHANGED <<hstack, px, pxStart, hovers, hlast, hops, t, Replacements, Incomplete, helpFrame>>

HelpNext ==
  \/ TestStart
  \/ HelpInitCall
  \/ \E fn \in {"Effect", "FatalEffect"}, loc \in MarkerLocs, got \in Gots : MarkerCall(fn, loc, got)
  \/ \E fn \in {"Must", "Must1", "Must2"}, err \in MustArgs : MustCall(fn, err)
  \/ \E v \in OverrideValues : OverrideCall(v)
  \/ HelpBodyEnd
  \/ CleanupRun
  \/ TestEnd

SpecHelpers == HelpInit /\ [][HelpNext]_vars

\* ------------------------------------------------------------------------
\* SpecDiff: the default Diff of Equals, dummydiff
\* ------------------------------------------------------------------------

\* Bound: longest text handed to Diff.
MaxDiffLen == 3

\* Bound: largest value of the package variable Context.
MaxContext == 2

\* The characters the texts of SpecDiff are drawn from.
DiffAlphabet == {"a", "b", NL}

RECURSIVE DiffTextsUpTo(_)
DiffTextsUpTo(n) ==
  IF n = 0 THEN {<<>>}
  ELSE LET shorter == DiffTextsUpTo(n - 1)
       IN shorter \cup {Append(x, c) : x \in {y \in shorter : Len(y) = n - 1}, c \in DiffAlphabet}

DiffTexts == DiffTextsUpTo(MaxDiffLen)

\* var Context = 2: any value a test may have set it to with Override.
Contexts == 0..MaxContext

\* min(a, b), max(a, b)
min(a, b) == IF a < b THEN a ELSE b

max(a, b) == IF a > b THEN a ELSE b

\* for commonStart < minlen && lt[commonStart] == rt[commonStart] { commonStart++ }
RECURSIVE commonStartFrom(_, _, _)
commonStartFrom(lt, rt, n) ==
  IF n < min(Len(lt), Len(rt)) /\ lt[n + 1] = rt[n + 1]
  THEN commonStartFrom(lt, rt, n + 1)
  ELSE n

commonStart(lt, rt) == commonStartFrom(lt, rt, 0)

\* for commonEnd < minlen && lt[len(lt)-1-commonEnd] == rt[len(rt)-1-commonEnd] { commonEnd++ }
RECURSIVE commonEndFrom(_, _, _)
commonEndFrom(lt, rt, n) ==
  IF n < min(Len(lt), Len(rt)) /\ lt[Len(lt) - n] = rt[Len(rt) - n]
  THEN commonEndFrom(lt, rt, n + 1)
  ELSE n

commonEnd(lt, rt) == commonEndFrom(lt, rt, 0)

\* for i := from; i < to; i++ { d = append(d, mark+lines[i]) }
Marked(mark, lines, from, to) ==
  [k \in 1..max(0, to - from) |-> <<mark>> \o lines[from + k]]

\* The capacity handed to make([]string, 0, ...).
DiffCapacity(lt, rt, Context) ==
  2 * Context + Len(lt) - commonStart(lt, rt) - commonEnd(lt, rt)
              + Len(rt) - commonStart(lt, rt) - commonEnd(lt, rt)

DiffReturns(out) == [panic |-> "", out |-> out]

DiffPanics(msg) == [panic |-> msg, out |-> <<>>]

\* dummydiff(lts, rts) under the given Context: the string it returns, or the panic of make
\* when the capacity is negative.
dummydiff(lts, rts, Context) ==
  IF lts = rts THEN DiffReturns(<<>>)
  ELSE LET lt == SplitLines(lts)
           rt == SplitLines(rts)
           cs == commonStart(lt, rt)
           ce == commonEnd(lt, rt)
           d == Marked(SP, lt, max(0, cs - Context), cs)
                \o Marked("-", lt, cs, Len(lt) - ce)
                \o Marked("+", rt, cs, Len(rt) - ce)
                \o Marked(SP, lt, Len(lt) - ce, min(Len(lt), Len(lt) - ce + Context))
       IN IF DiffCapacity(lt, rt, Context) < 0
          THEN DiffPanics("makeslice: cap out of range")
          ELSE DiffReturns(JoinLines(d) \o <<NL>>)

DiffInit ==
  /\ LitOff
  /\ ApOff
  /\ LifeOff
  /\ ConcOff
  /\ StrOff
  /\ RwOff
  /\ WireOff
  /\ HelpOff
  /\ diffPc = "start"
  /\ diffL \in DiffTexts
  /\ diffR \in DiffTexts
  /\ diffCtx \in Contexts
  /\ diffOut = <<>>

\* Diff(want, got), as Equals calls it on a mismatch.
DiffCall ==
  /\ diffPc = "start"
  /\ diffOut' = dummydiff(diffL, diffR, diffCtx)
  /\ diffPc' = "done"
  /\ UNCHANGED <<diffL, diffR, diffCtx, litVars, apVars, lifeVars, concVars, strVars, rwVars,
                 wireVars, helpVars>>

DiffNext == DiffCall

SpecDiff == DiffInit /\ [][DiffNext]_vars

\* ------------------------------------------------------------------------
\* Claims
\* ------------------------------------------------------------------------

\* C1: round trip of the rewriter: the literal written for a replacement
\* text X, evaluated as a Go string literal and passed through Detab as
\* Equals does, is X again, so that the comparison with got = X passes.
C1_RoundTrip == litPc = "read" => litWant = litX

\* The entries of a batch that the traversal of fname cannot match: no
\* Effect or FatalEffect statement of fname starts at their line.
Unmatched(d, batch, fname) ==
  {l \in DOMAIN batch :
     ~(/\ l[1] = fname
       /\ d[fname].parses
       /\ \E i \in 1..Len(d[fname].stmts) :
            /\ StartLine(d[fname].stmts, i) = l[2]
            /\ d[fname].stmts[i].fn \in {"Effect", "FatalEffect"})}

IsAscending(q) == \A i \in 1..(Len(q) - 1) : q[i] <= q[i + 1]

AppliedTo(fname) == apPc = "done" /\ apOp[1] = "Apply" /\ apOp[2] = fname

\* C2: when the batch handed to Apply(f) holds a location that matches no
\* marker call of f (f parses), Apply returns ReplacementsFailed naming f and
\* the unmatched lines in ascending order, and f is left as it was, also when
\* other locations of the batch matched.
C2_UnmatchedFailsWhole ==
  \A f \in Files :
    (AppliedTo(f) /\ disk0[f].parses /\ Unmatched(disk0, repl0, f) # {}) =>
      /\ apErr.kind = "efft.ReplacementsFailed"
      /\ apErr.file = f
      /\ IsAscending(apErr.lines)
      /\ Len(apErr.lines) = Cardinality(Unmatched(disk0, repl0, f))
      /\ {apErr.lines[i] : i \in 1..Len(apErr.lines)} = {l[2] : l \in Unmatched(disk0, repl0, f)}
      /\ disk = disk0

\* C2 witness: a batch with one matched and one unmatched location of the
\* same file was applied and failed.
C2_Witness ==
  \E f \in Files :
    /\ AppliedTo(f)
    /\ disk0[f].parses
    /\ Unmatched(disk0, repl0, f) # {}
    /\ \E l \in DOMAIN repl0 : l \notin Unmatched(disk0, repl0, f)
    /\ \A l \in DOMAIN repl0 : l[1] = f
    /\ apErr.kind = "efft.ReplacementsFailed"

\* The entries of a batch that belong to fname.
Own(batch, fname) == Restrict(batch, {l \in DOMAIN batch : l[1] = fname})

\* What a rewrite of fname with its own entries leaves on disk.
Rewritten(d, batch, fname) ==
  GoFile(FormatNode(Traverse(d[fname].stmts, Own(batch, fname), fname).stmts))

\* fname parses, has entries, and each of them matches a marker call of it.
OwnAllMatch(d, batch, fname) ==
  /\ d[fname].parses
  /\ DOMAIN Own(batch, fname) # {}
  /\ DOMAIN Own(batch, fname) \cap Unmatched(d, batch, fname) = {}

\* C3: Apply(f) acts on f's own entries only: when each of them matches a
\* marker call of f (and the write succeeds) f is rewritten and no error is
\* returned, whatever entries of other files the Replacer holds; and the
\* lines of a ReplacementsFailed error are exactly f's own unmatched lines.
C3_OwnEntriesOnly ==
  \A f \in Files :
    (AppliedTo(f) /\ DOMAIN Own(repl0, f) # {}) =>
      /\ (OwnAllMatch(disk0, repl0, f) /\ apOp[3] = "ok") =>
           (apErr = NoError /\ disk[f] = Rewritten(disk0, repl0, f))
      /\ apErr.kind = "efft.ReplacementsFailed" =>
           {apErr.lines[i] : i \in 1..Len(apErr.lines)}
             = {l[2] : l \in DOMAIN Own(repl0, f) \cap Unmatched(disk0, repl0, f)}

\* The file g fails in its rewrite: parse error, unmatched location, or
\* write failure.
FailsAlone(d, batch, wr, g) ==
  /\ DOMAIN Own(batch, g) # {}
  /\ \/ ~d[g].parses
     \/ DOMAIN Own(batch, g) \cap Unmatched(d, batch, g) # {}
     \/ wr[g] # "ok"

\* C4: in ApplyAll over several files a failure in one file does not affect
\* the others: every other file whose own entries all match is rewritten.
C4_FilesIndependent ==
  (apPc = "done" /\ apOp[1] = "ApplyAll") =>
    \A g \in Files : FailsAlone(disk0, repl0, apOp[2], g) =>
      \A f \in Files \ {g} :
        (OwnAllMatch(disk0, repl0, f) /\ apOp[2][f] = "ok") =>
          disk[f] = Rewritten(disk0, repl0, f)

\* A successful Apply(f) with one pending location, which matched.
OneApplied(f) ==
  /\ AppliedTo(f)
  /\ apErr = NoError
  /\ Cardinality(DOMAIN repl0) = 1
  /\ disk0[f].parses

\* The statement the one pending location names.
HitIndex(f) ==
  CHOOSE i \in 1..Len(disk0[f].stmts) :
    Location(f, StartLine(disk0[f].stmts, i)) \in DOMAIN repl0

OtherLinesIdentical(f) ==
  \A j \in 1..Len(disk0[f].stmts) :
    j # HitIndex(f) => LineBytes(disk[f].stmts, j) = LineBytes(disk0[f].stmts, j)

\* C5 as stated: after a successful Apply with one pending location every
\* line outside the rewritten statement is byte-identical, for every input
\* file that parses.
C5_OtherLinesIdentical == \A f \in Files : OneApplied(f) => OtherLinesIdentical(f)

\* Every line of the file is laid out as gofmt lays it out.
IsGofmted(stmts) == \A j \in 1..Len(stmts) : stmts[j].fmt # "loose"

\* The trailing comment of the i-th statement is aligned with that of a neighbour.
SharesCommentBlock(stmts, i) == stmts[i].fmt = "cmt" /\ CommentBlock(stmts, i) # {i}

\* C5 amended: after a successful Apply with one pending location on a file
\* that is already in gofmt's layout, every line outside the rewritten
\* statement is byte-identical, unless the trailing comment of the rewritten
\* statement is aligned with the trailing comment of an adjacent line.
C5_GofmtedOtherLinesIdentical ==
  \A f \in Files :
    (/\ OneApplied(f)
     /\ IsGofmted(disk0[f].stmts)
     /\ ~SharesCommentBlock(disk0[f].stmts, HitIndex(f))) => OtherLinesIdentical(f)

\* C5 witness: a gofmt-ed file of two statements, the other one with a
\* trailing comment, had the literal of one statement replaced.
C5_Witness ==
  \E f \in Files :
    /\ OneApplied(f)
    /\ IsGofmted(disk0[f].stmts)
    /\ Len(disk0[f].stmts) >= 2
    /\ ~SharesCommentBlock(disk0[f].stmts, HitIndex(f))
    /\ \E j \in 1..Len(disk0[f].stmts) : j # HitIndex(f) /\ disk0[f].stmts[j].fmt = "cmt"
    /\ disk[f].stmts[HitIndex(f)].lit # disk0[f].stmts[HitIndex(f)].lit

\* The records and the files of the child, once the test process is gone.
Received == ReadReplacements(pipe, EmptyMap)

ChildExitCodeRight ==
  LET named == {f \in Files : DOMAIN Own(Received.repl, f) # {}}
  IN /\ cexit \in {0, 1}
     /\ cexit = 0 =>
          /\ Received.ok
          /\ \A f \in named :
               /\ OwnAllMatch(disk0, Received.repl, f)
               /\ disk[f] = Rewritten(disk0, Received.repl, f)
     /\ ~Received.ok => (cexit = 1 /\ disk = disk0)
     /\ (Received.ok /\ \E f \in named : FailsAlone(disk0, Received.repl, apOp[2], f)) => cexit = 1
     /\ cexit = 1 => (~Received.ok \/ \E f \in named : disk[f] = disk0[f])

\* C7: a process started with the marker never runs a test body; it reads
\* the records up to end of input, applies them, and always terminates,
\* with exit code 0 if every file was rewritten and 1 on a read or rewrite
\* failure.
C7_ChildTerminates ==
  /\ [](cpc # "main" /\ (cpc = "exited" => ChildExitCodeRight))
  /\ (cpc = "reading" ~> cpc = "exited")

\* C7 witness: the child has rewritten a file and exited with code 0.
C7_Witness == cpc = "exited" /\ cexit = 0 /\ disk # disk0 /\ Received.ok

\* C8 as stated: the test process does not finish before the child it
\* spawned has exited, and its exit status reflects that of the child.
C8_ParentWaits ==
  (ppc = "exited" /\ cpc # "none") => (cpc = "exited" /\ (pexit = 0 <=> cexit = 0))

\* C8 amended: the test process never waits for the child: the child ends,
\* and the files change, only after the test process has ended; the exit
\* status of a test process that spawned the child is non-zero, whatever the
\* child's exit status.
C8_ChildRunsAfterParent ==
  /\ cpc = "exited" => ppc = "exited"
  /\ disk # disk0 => ppc = "exited"
  /\ (ppc = "exited" /\ cpc # "none") => pexit # 0

\* C8 witness: the child rewrote a file and exited with 0 after the test
\* process had exited with 1.
C8_Witness ==
  ppc = "exited" /\ pexit = 1 /\ cpc = "exited" /\ cexit = 0 /\ disk # disk0

ActiveTests == {i \in Tests : tstate[i] \in {"body", "cleanup", "reported"}}

\* C9: at most one run is active at any time; an Init called while a run is
\* active is fatal (the active test is failed, the caller stops) and neither
\* replaces the active test handle nor resets the two maps.
C9_OneActiveRun ==
  /\ [](Cardinality(ActiveTests) <= 1 /\ \A i \in ActiveTests : t = i)
  /\ [][\A i \in Tests :
          (tstate[i] = "new" /\ tstate'[i] # "new" /\ t # 0) =>
            /\ tstate'[i] = "aborted"
            /\ failed'[t]
            /\ t' = t
            /\ Replacements' = Replacements
            /\ Incomplete' = Incomplete]_vars

\* C9 witness: Init of one test was refused while another test, with an
\* entry recorded, is still the active one.
C9_Witness ==
  \E i, j \in Tests :
    /\ tstate[i] = "aborted"
    /\ tstate[j] = "body"
    /\ t = j
    /\ DOMAIN Replacements # {}
    /\ Incomplete # {}

\* The comparisons of the run at a location, in order.
LogAt(l) == SelectSeq(log, LAMBDA e : e.loc = l)

LogMissesAt(l) == SelectSeq(log, LAMBDA e : e.loc = l /\ e.outcome # "pass")

RunOver == \E i \in Tests : tstate[i] = "cleanup" /\ t = i

\* C10 as stated: the text held for a location at the end of the run is the
\* value computed by the first comparison of the run at that location.
C10_FirstValueHeld ==
  RunOver => \A l \in DOMAIN Replacements : Replacements[l] = LogAt(l)[1].got

\* C10 amended: Replace never changes the text held for a recorded location,
\* and at the end of a run the text held for a location is the value of the
\* first comparison at it that did not pass (a stub or a mismatch): passing
\* comparisons leave no entry, later failures do not overwrite.
C10_FirstMissHeld ==
  /\ [](RunOver =>
          /\ DOMAIN Replacements = {l \in CallSites(disk0) : Len(LogMissesAt(l)) > 0}
          /\ \A l \in DOMAIN Replacements : Replacements[l] = LogMissesAt(l)[1].got)
  /\ [][\A l \in DOMAIN Replacements \cap DOMAIN Replacements' :
          Replacements'[l] = Replacements[l]]_vars

\* C10 witness: a run ended with two failed comparisons of different values
\* at one location.
C10_Witness ==
  /\ RunOver
  /\ \E l \in DOMAIN Replacements :
       /\ Len(LogMissesAt(l)) = 2
       /\ LogMissesAt(l)[1].got # LogMissesAt(l)[2].got

\* C11: every read and every mutation of the Replacements and Incomplete
\* maps by Effect/FatalEffect and by Equals happens while the goroutine
\* holds the Replacer's mutex, so no two goroutines are inside conflicting
\* operations on one map at once.
C11_MapsUnderMutex ==
  /\ \A g \in Goroutines : InOp(g) \in MapOps => mu = g
  /\ \A g \in Goroutines : ~Racing(g)

\* The reporting cleanup of test i has run.
Reported(i) == tstate[i] = "reported" /\ t = i

LogOutcomes == {log[k].outcome : k \in 1..Len(log)}

\* The literal of the expectation at loc is empty ("") or absent (no Equals).
EmptyOrAbsent(loc) == StmtAt(disk0, loc).lit \in {<<>>, Quote(<<>>)}

\* C12 as stated: a run that evaluated an expectation whose literal is empty
\* or absent is marked failed at its end, in update mode or not.
C12_EmptyAlwaysFails ==
  \A i \in Tests :
    (Reported(i) /\ \E k \in 1..Len(log) : EmptyOrAbsent(log[k].loc)) => failed[i]

\* C12 amended: an expectation without Equals (absent literal) is reported as
\* a failure at the end of the run, in update mode or not; an expectation
\* with the empty literal is compared like any other: when every comparison
\* of the run passed, also those of the empty value against "", nothing is
\* pending and the cleanup reports no failure.
C12_StubAlwaysFails ==
  \A i \in Tests :
    Reported(i) =>
      /\ "stub" \in LogOutcomes => (failed[i] /\ Incomplete # {})
      /\ LogOutcomes \subseteq {"pass"} =>
           (DOMAIN Replacements = {} /\ Incomplete = {}
              /\ ~CleanupFails(Replacements, Incomplete))

\* C12 witness: with update mode off, a run whose only expectation has no
\* Equals was reported and is marked failed.
C12_Witness ==
  \E i \in Tests :
    /\ Reported(i)
    /\ ~updatemode
    /\ LogOutcomes = {"stub"}
    /\ Incomplete # {}
    /\ failed[i]

\* No Init was refused in the process, which would fail the active test.
NoRefusal == \A j \in Tests : tstate[j] # "aborted"

\* C13 as stated: in update mode a mismatch does not fail the run: a test
\* whose only problems are mismatching literals is not marked failed.
C13_MismatchDoesNotFail ==
  \A i \in Tests :
    (/\ updatemode
     /\ Reported(i)
     /\ NoRefusal
     /\ "miss" \in LogOutcomes
     /\ LogOutcomes \subseteq {"pass", "miss"}) => ~failed[i]

\* C13 amended: in update mode a mismatch is queued for the rewrite and
\* fails the test as well: Equals marks the test failed at once, its
\* location holds a pending entry from then on, and after the reporting
\* cleanup, which reports WrongExpectations, a record for the location is in
\* the pipe of the child.
C13_MismatchQueuedAndFails ==
  \A i \in Tests :
    (updatemode /\ t = i /\ "miss" \in LogOutcomes) =>
      /\ failed[i]
      /\ \A k \in 1..Len(log) :
           log[k].outcome = "miss" =>
             /\ log[k].loc \in DOMAIN Replacements
             /\ Reported(i) =>
                  /\ CleanupFails(Replacements, Incomplete)
                  /\ \E n \in 1..Len(pipe) :
                       pipe[n] = WireRecord(log[k].loc, Replacements[log[k].loc])

\* C13 witness: in update mode a run whose only problem is one mismatch was
\* reported: the test is marked failed and the record is in the pipe.
C13_Witness ==
  \E i \in Tests :
    /\ updatemode
    /\ Reported(i)
    /\ NoRefusal
    /\ LogOutcomes = {"miss"}
    /\ failed[i]
    /\ Len(pipe) = 1

\* C14: with update mode off the reporting cleanup marks a run failed when
\* it ends with a pending entry or an incomplete location, and adds no
\* failure when both sets are empty; no rewriter child is ever spawned and
\* no record is ever written.
C14_UpdateOffReports ==
  /\ [](~updatemode => (cpc = "none" /\ pipe = <<>> /\ ~rewriterPipe /\ disk = disk0))
  /\ [][\A i \in Tests :
          (~updatemode /\ tstate[i] = "cleanup" /\ tstate'[i] = "reported") =>
            /\ Incomplete \subseteq DOMAIN Replacements
            /\ (DOMAIN Replacements # {} \/ Incomplete # {}) => failed'[i]
            /\ (DOMAIN Replacements = {} /\ Incomplete = {}) => failed'[i] = failed[i]]_vars

\* C14 witness: with update mode off a run with one wrong expectation and
\* nothing incomplete was reported: the test is failed and there is no child.
C14_Witness ==
  \E i \in Tests :
    /\ ~updatemode
    /\ Reported(i)
    /\ DOMAIN Replacements # {}
    /\ Incomplete = {}
    /\ failed[i]
    /\ cpc = "none"

\* The step is an Equals of test i that found a mismatch.
MismatchStep(i) ==
  /\ res[i].live
  /\ ~res'[i].live
  /\ Len(log') = Len(log) + 1
  /\ log'[Len(log')].outcome = "miss"

Stringified == strPc = "done" /\ Len(strArgs) >= 2

LastArg == strArgs[Len(strArgs)]

LeadingArgs == SubSeq(strArgs, 1, Len(strArgs) - 1)

\* C16: with two or more values of which the last is true or nil, Stringify
\* omits the last value: with two values the result is that of Stringify of
\* the first alone, with more it is the sequence rendering of the others.
C16_TrailingOkDropped ==
  (Stringified /\ LastArg \in {GoBool(TRUE), GoNil}) =>
    strOut = (IF Len(strArgs) = 2 THEN Stringify(<<strArgs[1]>>) ELSE Json(GoSlice(LeadingArgs)))

\* C16 witness: Stringify("a", 1, nil) returned the rendering of ["a", 1].
C16_Witness ==
  /\ strPc = "done"
  /\ strArgs = <<GoString(<<"a">>), GoInt(<<"1">>), GoNil>>
  /\ strOut = <<"[", NL, " ", " ", DQ, "a", DQ, ",", NL, " ", " ", "1", NL, "]">>

\* C17: with two or more values of which the last is false, Stringify
\* returns the sequence rendering of all the values, the false included.
C17_TrailingFalseKept ==
  (Stringified /\ LastArg = GoBool(FALSE)) => strOut = Json(GoSlice(strArgs))

\* C17 witness: Stringify("a", false) returned the rendering of ["a", false].
C17_Witness ==
  /\ strPc = "done"
  /\ strArgs = <<GoString(<<"a">>), GoBool(FALSE)>>
  /\ strOut = <<"[", NL, " ", " ", DQ, "a", DQ, ",", NL, " ", " ", "false", NL, "]">>

\* C18 as stated: with two or more values of which the last is a non-nil
\* error, Stringify returns the message of the error, whatever else the
\* error can do.
C18_ErrorMessageOnly == (Stringified /\ IsError(LastArg)) => strOut = LastArg.s

\* C18 amended: with two or more values of which the last is a non-nil
\* error, Stringify returns stringify1 of the error and nothing of the other
\* values: what String() returns when the error has a String method, and
\* its message otherwise.
C18_ErrorStringified ==
  (Stringified /\ IsError(LastArg)) =>
    strOut = (IF IsStringer(LastArg) THEN LastArg.str ELSE LastArg.s)

\* C18 witness: Stringify("a", 1, err) with a plain error returned the
\* message of the error.
C18_Witness ==
  /\ strPc = "done"
  /\ strArgs = <<GoString(<<"a">>), GoInt(<<"1">>), GoError(<<"E">>)>>
  /\ strOut = <<"E">>

\* makelit has written the literal for litX.
LitWritten == litPc \in {"written", "read"}

\* C19: makelit emits a double-quoted single-line literal exactly when the
\* text has no line break or has a backtick, and a raw block otherwise; so
\* every multi-line text with a backtick is quoted.
C19_QuotedOrRaw ==
  LitWritten =>
    IF ~Contains(litX, NL) \/ Contains(litX, BT)
    THEN /\ litSrc[1] = DQ
         /\ litSrc[Len(litSrc)] = DQ
         /\ ~Contains(litSrc, NL)
         /\ ~Contains(litSrc, BT) \/ Contains(litX, BT)
    ELSE /\ Len(litSrc) >= 3
         /\ litSrc[1] = BT
         /\ litSrc[2] = NL
         /\ litSrc[Len(litSrc)] = BT

\* C19 witness: the literal written for the two-line text "a", "`" is the
\* quoted "a\n`".
C19_Witness ==
  /\ litPc = "written"
  /\ litX = <<"a", NL, BT>>
  /\ litSrc = <<DQ, "a", BS, "n", BT, DQ>>

\* The text is written as a raw block.
RawCase == LitWritten /\ Contains(litX, NL) /\ ~Contains(litX, BT)

\* The lines between the opening and the closing backtick, given the
\* indentation of the closing line and whether an empty first line is
\* indented.
BlockLines(closing, firstToo) ==
  LET ss == SplitLines(litX)
      body == Repeat(TAB, litIndent)
  IN [i \in 1..Len(ss) |->
        IF i = Len(ss) /\ ss[i] = <<>> THEN Repeat(TAB, closing)
        ELSE IF ss[i] # <<>> \/ (firstToo /\ i = 1) THEN body \o ss[i]
        ELSE <<>>]

\* C20 as stated: in the raw block every non-empty line has the call-site
\* indentation and empty lines have none; when the text ends with a line
\* break the closing backtick is on its own line, indented one level less
\* than the body; otherwise it follows the last line directly.
C20_RawBlockLayout ==
  RawCase => litSrc = <<BT, NL>> \o JoinLines(BlockLines(litIndent - 1, FALSE)) \o <<BT>>

\* C20 amended: in the raw block the first line, also when it is empty, and
\* every non-empty line have the call-site indentation, the other empty
\* lines have none; when the text ends with a line break the closing
\* backtick is on its own line with the same indentation as the body;
\* otherwise it follows the last line directly.
C20_RawBlockLayoutAsWritten ==
  RawCase => litSrc = <<BT, NL>> \o JoinLines(BlockLines(litIndent, TRUE)) \o <<BT>>

\* C20 witness: the block written at column 2 for the text "a", line break,
\* has its closing backtick behind two tabs.
C20_Witness ==
  /\ litPc = "written"
  /\ litX = <<"a", NL>>
  /\ litIndent = 2
  /\ litSrc = <<BT, NL, TAB, TAB, "a", NL, TAB, TAB, BT>>

\* The body of an interpreted string literal: no bare quote, no line break.
RECURSIVE InterpretedBody(_)
InterpretedBody(s) ==
  IF s = <<>> THEN TRUE
  ELSE IF s[1] = BS THEN Len(s) >= 2 /\ InterpretedBody(Drop(s, 2))
  ELSE s[1] \notin {DQ, NL} /\ InterpretedBody(Tail(s))

\* Whether src is the source text of exactly one Go string literal.
IsStringLit(src) ==
  /\ Len(src) >= 2
  /\ LET inner == SubSeq(src, 2, Len(src) - 1)
     IN \/ src[1] = DQ /\ src[Len(src)] = DQ /\ InterpretedBody(inner)
        \/ src[1] = BT /\ src[Len(src)] = BT /\ ~Contains(inner, BT)

\* The statements of A the first Apply matched.
Matched == {i \in 1..Len(disk0["A"].stmts) : IsHit(disk0["A"].stmts, repl0, "A", i)}

AppliedOnce == apPc \in {"once", "twice"} /\ err1 = NoError

C21_WitnessEmptyAndNumber ==
  /\ AppliedOnce
  /\ Matched = {1, 2}
  /\ disk0["A"].stmts[1].eq /\ disk0["A"].stmts[1].lit = <<>>
  /\ disk0["A"].stmts[2].lit = ArgNumber

\* The statements of A that call Effect or FatalEffect and start at a pending
\* location.
PendingMarkers ==
  {i \in 1..Len(disk0["A"].stmts) :
     /\ disk0["A"].stmts[i].fn \in {"Effect", "FatalEffect"}
     /\ Location("A", StartLine(disk0["A"].stmts, i)) \in DOMAIN repl0}

\* C22: Apply finds the marker call for every pending location that is the
\* start line of a statement calling Effect or FatalEffect, wherever the
\* statement is nested: after the call the location is no longer pending.
C22_FindsEveryMarker ==
  apPc = "once" =>
    \A i \in PendingMarkers :
      Location("A", StartLine(disk0["A"].stmts, i)) \notin DOMAIN repl

\* The second Apply ran and its write was not refused.
AppliedTwice == apPc = "twice" /\ apOp[3] = "ok"

\* The first Apply left every statement of the batch at its start line.
LinesStay ==
  \A i \in Matched : StartLine(disk1["A"].stmts, i) = StartLine(disk0["A"].stmts, i)

C23_WitnessSilent == AppliedTwice /\ apErr = NoError /\ disk # disk1

\* The second Apply failed with efft.ReplacementsFailed.
C23_WitnessFails == AppliedTwice /\ apErr.kind = "efft.ReplacementsFailed" /\ disk = disk1

\* C24: every (path, line, text) the cleanup writes with "%q %d %q\n" is read
\* back by the child's Scanf loop as the same triple, and a stream of n records
\* with distinct locations yields the map of exactly those n entries.
C24_StreamRoundTrip ==
  (wirePc = "read" /\ wireFault = "none") => wireGot.ok /\ wireGot.repl = wireMap

\* Two records were read back: a path with a space and a backslash, a line
\* of two digits, a text with a line break and a text with a quote.
C24_Witness ==
  /\ wirePc = "read"
  /\ wireFault = "none"
  /\ wireGot.ok
  /\ Cardinality(DOMAIN wireGot.repl) = 2
  /\ \E l \in DOMAIN wireGot.repl : Contains(l[1], SP) /\ Contains(l[1], BS) /\ l[2] = 12
  /\ \E l \in DOMAIN wireGot.repl : wireGot.repl[l] = <<"a", NL>>
  /\ \E l \in DOMAIN wireGot.repl : wireGot.repl[l] = <<BS, DQ>>

\* One record with the empty text, and one whose text is a backslash and an n.
C24_WitnessEmpty ==
  wirePc = "read" /\ wireFault = "none" /\ wireGot.ok /\ \E l \in DOMAIN wireGot.repl : wireGot.repl[l] = <<>>

C24_WitnessBackslashN ==
  wirePc = "read" /\ wireFault = "none" /\ wireGot.ok /\ \E l \in DOMAIN wireGot.repl : wireGot.repl[l] = <<BS, "n">>

\* The step is a call of one of the six functions while no run is active.
CallWithoutRun == hlast' # hlast /\ hlast'.fn \in Helpers /\ t = 0

\* C25: a call of Effect, FatalEffect, Must, Must1, Must2 or Override while
\* no run is active panics with efft.MissingInit and changes neither the
\* store, nor *p, nor the registered cleanups.
C25_PanicsWithoutInit ==
  [][CallWithoutRun =>
       /\ hlast'.outcome = "panic"
       /\ hlast'.msg = "efft.MissingInit"
       /\ hphase' = "panicked"
       /\ UNCHANGED <<Replacements, Incomplete, px, hstack, t>>]_vars

\* Override panicked in the second test, which did not call Init, after the
\* first test had called Init, recorded a replacement and ended.
C25_Witness ==
  /\ hphase = "panicked"
  /\ hlast.fn = "Override"
  /\ hlast.msg = "efft.MissingInit"
  /\ hdone = 1
  /\ DOMAIN Replacements # {}

\* Each of the six functions panicked in a test that did not call Init.
C25_WitnessEffect == hphase = "panicked" /\ hlast.fn = "Effect" /\ hdone = 0
C25_WitnessFatalEffect == hphase = "panicked" /\ hlast.fn = "FatalEffect" /\ hdone = 0
C25_WitnessMust == hphase = "panicked" /\ hlast.fn = "Must" /\ hdone = 0
C25_WitnessMust1 == hphase = "panicked" /\ hlast.fn = "Must1" /\ hdone = 0
C25_WitnessMust2 == hphase = "panicked" /\ hlast.fn = "Must2" /\ hdone = 0

\* C26: while the test body runs, *p holds the value of the latest Override
\* of the test; once the test has ended, *p holds the value it had when the
\* test started, also after several Overrides.
C26_OverrideRestored ==
  /\ (hphase = "body" /\ hovers # <<>>) => px = hovers[Len(hovers)]
  /\ hphase = "idle" => px = pxStart

\* A test that overrode the variable twice, with different values, has ended.
C26_Witness ==
  /\ hphase = "idle"
  /\ hdone >= 1
  /\ Len(hovers) = 2
  /\ hovers[1] # hovers[2]
  /\ px = pxStart

\* The order the states of a test are passed in.
Follows(a, b) ==
  \/ a = "new" /\ b \in {"body", "aborted"}
  \/ a = "body" /\ b = "cleanup"
  \/ a = "cleanup" /\ b = "reported"
  \/ a = "reported" /\ b = "ended"

\* C27: a test whose Init succeeded goes from body to the cleanups, whether it
\* returned or was aborted; the reporting and streaming cleanup runs while the
\* test is still the active one; the active marker is cleared only after it;
\* and an Init called when no test is active succeeds and starts with empty
\* Replacements and Incomplete maps.
C27_RunLifecycle ==
  [][/\ \A i \in Tests :
          /\ tstate'[i] # tstate[i] => Follows(tstate[i], tstate'[i])
          /\ (tstate[i] = "cleanup" /\ tstate'[i] = "reported") => t = i /\ t' = i
          /\ (tstate[i] = "new" /\ tstate'[i] # "new" /\ t = 0) =>
               /\ tstate'[i] = "body"
               /\ t' = i
               /\ Replacements' = EmptyMap
               /\ Incomplete' = {}
          /\ (tstate[i] \in {"body", "cleanup", "reported"}) => t = i
     /\ (t # 0 /\ t' = 0) => tstate[t] = "reported" /\ tstate'[t] = "ended"]_vars

\* One test failed and ended, its cleanups ran, and the Init of the other
\* test succeeded after it.
C27_Witness ==
  /\ \E i \in Tests : tstate[i] = "ended" /\ failed[i]
  /\ \E i \in Tests : tstate[i] = "body" /\ t = i
  /\ ~updatemode
  /\ Replacements = EmptyMap
  /\ Incomplete = {}
  /\ log = <<>>

\* Some location holds a recorded value that the literal it received does
\* not match.
MismatchRecorded ==
  \E l \in DOMAIN Replacements :
    /\ StmtAt(disk0, l).eq
    /\ Detab(LitValue(StmtAt(disk0, l).lit)) # Replacements[l]

\* The test of the reporting cleanup: len(replacements) > len(incomplete).
WrongExpectations == Cardinality(DOMAIN Replacements) > Cardinality(Incomplete)

\* C28: after every Effect/FatalEffect call and every Equals call, Incomplete
\* is a subset of the keys of Replacements; and when the body of the run is
\* over, len(Replacements) > len(Incomplete) holds exactly when some location
\* holds a recorded value its literal did not match, which is exactly when
\* some comparison of the run mismatched.
C28_IncompleteWithinReplacements ==
  /\ Incomplete \subseteq DOMAIN Replacements
  /\ RunOver => (WrongExpectations <=> MismatchRecorded)
  /\ RunOver => (WrongExpectations <=> "miss" \in LogOutcomes)

\* A run is over in which one comparison mismatched and a stub was recorded:
\* two entries, one of them incomplete.
C28_Witness ==
  /\ RunOver
  /\ WrongExpectations
  /\ Cardinality(Incomplete) = 1
  /\ Cardinality(DOMAIN Replacements) = 2
  /\ \E k \in 1..Len(log) : log[k].outcome = "miss"

\* A run is over with a stub recorded and no mismatch.
C28_WitnessStubOnly ==
  RunOver /\ ~WrongExpectations /\ Cardinality(Incomplete) = 1 /\ ~MismatchRecorded

\* The stream ends behind the closing quote of a record's text: the line
\* break of that record is all it lacks.
LacksOnlyNewline ==
  /\ wireFault = "cut"
  /\ \E s \in WireStreams(wireMap) :
       /\ Len(wireBytes) < Len(s)
       /\ wireBytes = SubSeq(s, 1, Len(wireBytes))
       /\ s[Len(wireBytes) + 1] = NL

\* C29: if any record of the stream is malformed or truncated, the child
\* exits with code 1 and every source file is unchanged.
C29_BadStreamRejected ==
  (wirePc = "read" /\ wireFault # "none") => (cexit = 1 /\ disk = disk0)

\* C29, amended: if a record of the stream is malformed, or truncated
\* anywhere before the closing quote of its text, the read loop fails, the
\* child exits with code 1 and every source file is unchanged, even if
\* earlier records were well formed; a stream that ends behind the closing
\* quote of a record, lacking that record's line break, is read without error
\* and the records up to there are applied.
C29_BadStreamRejectedButNewline ==
  /\ (wirePc = "read" /\ wireFault # "none" /\ ~LacksOnlyNewline) =>
       (~wireGot.ok /\ cexit = 1 /\ disk = disk0)
  /\ (wirePc = "read" /\ LacksOnlyNewline) =>
       /\ wireGot.ok
       /\ DOMAIN wireGot.repl # {}
       /\ \A l \in DOMAIN wireGot.repl : l \in DOMAIN wireMap /\ wireGot.repl[l] = wireMap[l]

\* The child read a well-formed record for line 1 of file A, then a record
\* cut short, and exited with code 1 without touching a file.
C29_Witness ==
  /\ wirePc = "read"
  /\ wireFault = "cut"
  /\ ~wireGot.ok
  /\ DOMAIN wireGot.repl = {<<PathOf["A"], 1>>}
  /\ cexit = 1
  /\ disk = disk0

\* The same with a malformed second record.
C29_WitnessGarbled ==
  /\ wirePc = "read"
  /\ wireFault = "garbled"
  /\ ~wireGot.ok
  /\ DOMAIN wireGot.repl = {<<PathOf["A"], 1>>}
  /\ cexit = 1
  /\ disk = disk0

\* The stream lacked its final line break and the child rewrote a file.
C29_WitnessNewline == wirePc = "read" /\ LacksOnlyNewline /\ cexit = 0 /\ disk # disk0

\* ---- C30 ----

\* The lines of the string Diff returned (it ends every line with a newline).
DiffLinesOut ==
  LET ls == SplitLines(diffOut.out) IN SubSeq(ls, 1, Len(ls) - 1)

\* The number of lines two texts share at their start: the line behind them is the first
\* differing line.
SharedAtStart(lt, rt) ==
  CHOOSE n \in 0..min(Len(lt), Len(rt)) :
    /\ \A i \in 1..n : lt[i] = rt[i]
    /\ n < min(Len(lt), Len(rt)) => lt[n + 1] # rt[n + 1]

\* The number of lines two texts share at their end: the line before them is the last
\* differing line.
SharedAtEnd(lt, rt) ==
  CHOOSE n \in 0..min(Len(lt), Len(rt)) :
    /\ \A i \in 0..(n - 1) : lt[Len(lt) - i] = rt[Len(rt) - i]
    /\ n < min(Len(lt), Len(rt)) => lt[Len(lt) - n] # rt[Len(rt) - n]

IsChangeLine(line) == line[1] \in {"-", "+"}

\* The lines of one mark, in order, without the mark.
LinesMarked(lines, mark) ==
  LET sel == SelectSeq(lines, LAMBDA l : l[1] = mark)
  IN [k \in 1..Len(sel) |-> Tail(sel[k])]

\* The number of unchanged lines before the first change line (all lines when there is none).
ContextBefore(lines) ==
  Cardinality({i \in 1..Len(lines) : \A j \in 1..i : ~IsChangeLine(lines[j])})

ContextAfter(lines) ==
  Cardinality({i \in 1..Len(lines) : \A j \in i..Len(lines) : ~IsChangeLine(lines[j])})

\* C30: the default Diff returns the empty string exactly when its two inputs are equal;
\* when they differ it returns (without panicking, for every Context >= 0) a text in which
\* the '-' lines are the lines of the left text and the '+' lines the lines of the right
\* text between the first and the last differing line, at least one line is a '-' or '+'
\* line, and at most Context unchanged lines stand before and after them.
C30_DiffMarksChanges ==
  diffPc = "done" =>
    /\ diffOut.panic = ""
    /\ (diffOut.out = <<>>) <=> (diffL = diffR)
    /\ diffL # diffR =>
         LET lt == SplitLines(diffL)
             rt == SplitLines(diffR)
             s == SharedAtStart(lt, rt)
             e == SharedAtEnd(lt, rt)
             lines == DiffLinesOut
         IN /\ LinesMarked(lines, "-") = [k \in 1..max(0, Len(lt) - e - s) |-> lt[s + k]]
            /\ LinesMarked(lines, "+") = [k \in 1..max(0, Len(rt) - e - s) |-> rt[s + k]]
            /\ \E i \in 1..Len(lines) : IsChangeLine(lines[i])
            /\ ContextBefore(lines) <= diffCtx
            /\ ContextAfter(lines) <= diffCtx

\* Diff("a\na", "a") under Context = 2 returned two unchanged lines and no change line.
C30_NoChangeLine ==
  /\ diffPc = "done"
  /\ diffL = <<"a", NL, "a">>
  /\ diffR = <<"a">>
  /\ diffCtx = 2
  /\ diffOut = DiffReturns(<<SP, "a", NL, SP, "a", NL>>)

\* Diff("a\na", "a") under Context = 0 panicked.
C30_Panicked ==
  /\ diffPc = "done"
  /\ diffL = <<"a", NL, "a">>
  /\ diffR = <<"a">>
  /\ diffCtx = 0
  /\ diffOut.panic # ""

====
